---- MODULE Spec2Model ----
(***************************************************************************)
(* Answer-validation engine of matuc-lti-exercise-composer: the input      *)
(* normalizer, the expression evaluator, the selectors (validators) and    *)
(* the validation service.                                                 *)
(*                                                                         *)
(* A string is a sequence of characters; a character is a one-character    *)
(* TLA+ string, or, for a non-ASCII glyph, the glyph's name (gInf is the   *)
(* infinity sign, gCup the union sign, ...).                               *)
(***************************************************************************)
EXTENDS Integers, Sequences, FiniteSets, TLC

VARIABLES
    nInput, nCfg, nOnce, nTwice, nPc,          \* normalizer runs
    shape, op, correct, user, cfg, result, pc, \* one validate/compare call
    cParts, uParts, sep,                       \* the union parts the set answers were written from
    validations, loopIndex, status, settled,   \* one validateBatch call
    settleOrder, results, summary, bPc, requestKeys,
    lEntry, lArg, lTimeout, lDuration,         \* one call on the event loop
    clock, timers, lSingle, lOutcome, lPc,
    selectors, registrations, created,         \* the registry of the factory
    cStack, cSent, cOnlyRetryable, cOutcome,   \* one call of the Canvas client
    calls, saved                               \* submitResponses calls and the stored responses

normVars  == <<nInput, nCfg, nOnce, nTwice, nPc>>
callVars  == <<shape, op, correct, user, cfg, cParts, uParts, sep>>
selVars   == <<callVars, result, pc>>
batchVars == <<validations, loopIndex, status, settled, settleOrder, results, summary, bPc,
               requestKeys>>
loopVars  == <<lEntry, lArg, lTimeout, lDuration, clock, timers, lSingle, lOutcome, lPc>>
regVars   == <<selectors, registrations, created>>
canvasVars == <<cStack, cSent, cOnlyRetryable, cOutcome>>
attemptVars == <<calls, saved>>
extVars   == <<canvasVars, attemptVars>>
svcVars   == <<loopVars, regVars, extVars>>
vars      == <<normVars, selVars, batchVars, svcVars>>

(***************************************************************************)
(* Characters                                                              *)
(***************************************************************************)
gInf      == "<inf>"
gCup      == "<cup>"
gCap      == "<cap>"
gElem     == "<in>"
gNotElem  == "<notin>"
gSubset   == "<subset>"
gSubsetEq == "<subseteq>"
gPi       == "<pi>"
gSqrt     == "<sqrt>"
gTimes    == "<times>"
gDiv      == "<div>"

UpperChars == <<"A","B","C","D","E","F","G","H","I","J","K","L","M",
                "N","O","P","Q","R","S","T","U","V","W","X","Y","Z">>
LowerChars == <<"a","b","c","d","e","f","g","h","i","j","k","l","m",
                "n","o","p","q","r","s","t","u","v","w","x","y","z">>
Digits     == <<"0","1","2","3","4","5","6","7","8","9">>

IsWhitespace(c) == c \in {" ", "\t", "\n"}
IsDigit(c)      == \E i \in 1..10 : Digits[i] = c
DigitValue(c)   == (CHOOSE i \in 1..10 : Digits[i] = c) - 1

(***************************************************************************)
(* String primitives of the runtime (methods of String and Array)        *)
(***************************************************************************)
Drop(s, n) == SubSeq(s, n + 1, Len(s))
Take(s, n) == SubSeq(s, 1, n)

StartsWith(s, pat) == Len(pat) <= Len(s) /\ Take(s, Len(pat)) = pat

\* s.replace(/pat/g, rep) for a literal pattern: leftmost, non-overlapping.
RECURSIVE ReplaceAll(_, _, _)
ReplaceAll(s, pat, rep) ==
    IF Len(s) < Len(pat) \/ Len(pat) = 0 THEN s
    ELSE IF StartsWith(s, pat)
         THEN rep \o ReplaceAll(Drop(s, Len(pat)), pat, rep)
         ELSE <<s[1]>> \o ReplaceAll(Tail(s), pat, rep)

\* s.replace(/\s+/g, ' '): every run of whitespace becomes one space.
RECURSIVE CollapseWhitespace(_)
CollapseWhitespace(s) ==
    IF s = <<>> THEN <<>>
    ELSE IF IsWhitespace(s[1])
         THEN IF Len(s) > 1 /\ IsWhitespace(s[2])
              THEN CollapseWhitespace(Tail(s))
              ELSE <<" ">> \o CollapseWhitespace(Tail(s))
         ELSE <<s[1]>> \o CollapseWhitespace(Tail(s))

RECURSIVE TrimLeft(_)
TrimLeft(s) == IF s # <<>> /\ IsWhitespace(s[1]) THEN TrimLeft(Tail(s)) ELSE s

RECURSIVE TrimRight(_)
TrimRight(s) ==
    IF s # <<>> /\ IsWhitespace(s[Len(s)]) THEN TrimRight(Take(s, Len(s) - 1)) ELSE s

Trim(s) == TrimRight(TrimLeft(s))

LowerChar(c) ==
    IF \E i \in 1..26 : UpperChars[i] = c
    THEN LowerChars[CHOOSE i \in 1..26 : UpperChars[i] = c]
    ELSE c

ToLowerCase(s) == [i \in 1..Len(s) |-> LowerChar(s[i])]

\* s.indexOf(c) and s.lastIndexOf(c), 1-based; 0 when c does not occur.
IndexOf(s, c) ==
    IF \E i \in 1..Len(s) : s[i] = c
    THEN CHOOSE i \in 1..Len(s) : s[i] = c /\ \A j \in 1..(i - 1) : s[j] # c
    ELSE 0

LastIndexOf(s, c) ==
    IF \E i \in 1..Len(s) : s[i] = c
    THEN CHOOSE i \in 1..Len(s) : s[i] = c /\ \A j \in (i + 1)..Len(s) : s[j] # c
    ELSE 0

\* s.split(c) for a one-character separator: always at least one piece.
RECURSIVE Split(_, _)
Split(s, c) ==
    LET k == IndexOf(s, c)
    IN  IF k = 0 THEN <<s>>
        ELSE <<Take(s, k - 1)>> \o Split(Drop(s, k), c)

\* array.filter(p) for "is not the empty string".
RECURSIVE FilterNonEmpty(_)
FilterNonEmpty(ps) ==
    IF ps = <<>> THEN <<>>
    ELSE IF ps[1] = <<>> THEN FilterNonEmpty(Tail(ps))
         ELSE <<ps[1]>> \o FilterNonEmpty(Tail(ps))

TrimEach(ps) == [i \in 1..Len(ps) |-> Trim(ps[i])]

(***************************************************************************)
(* BaseSelector: configuration and input normalizer                        *)
(***************************************************************************)
\* A rational number n/d, d > 0, in lowest terms.
RECURSIVE Gcd(_, _)
Gcd(a, b) == IF b = 0 THEN a ELSE Gcd(b, a % b)
Abs(a) == IF a < 0 THEN -a ELSE a
Rat(n, d) ==
    LET g == Gcd(Abs(n), Abs(d))
        s == IF d < 0 THEN -1 ELSE 1
    IN  IF n = 0 THEN [n |-> 0, d |-> 1] ELSE [n |-> s * (n \div g), d |-> s * (d \div g)]

applyMathematicalNormalizations(input) ==
    LET s1  == ReplaceAll(input, <<gInf>>, <<"i","n","f","t","y">>)
        s2  == ReplaceAll(s1, <<"i","n","f","t","y">>, <<"1","e","3","0","9">>)
        s3  == ReplaceAll(s2, <<"a","r","c","s","i","n">>, <<"a","s","i","n">>)
        s4  == ReplaceAll(s3, <<"a","r","c","c","o","s">>, <<"a","c","o","s">>)
        s5  == ReplaceAll(s4, <<"a","r","c","t","a","n">>, <<"a","t","a","n">>)
        s6  == ReplaceAll(s5, <<gTimes>>, <<"*">>)
        s7  == ReplaceAll(s6, <<gDiv>>, <<"/">>)
        s8  == ReplaceAll(s7, <<gPi>>, <<"p","i">>)
        s9  == ReplaceAll(s8, <<gSqrt>>, <<"s","q","r","t">>)
        s10 == ReplaceAll(s9, <<gCup>>, <<"U">>)
        s11 == ReplaceAll(s10, <<gCap>>, <<"I">>)
        s12 == ReplaceAll(s11, <<gElem>>, <<"i","n">>)
        s13 == ReplaceAll(s12, <<gNotElem>>, <<"n","o","t","i","n">>)
        s14 == ReplaceAll(s13, <<gSubset>>, <<"s","u","b","s","e","t">>)
        s15 == ReplaceAll(s14, <<gSubsetEq>>, <<"s","u","b","s","e","t","e","q">>)
    IN  CollapseWhitespace(s15)

\* customFormatters is the empty map here, so the loop over it does nothing.
normalizeInput(input, c) ==
    LET a == IF c.stripSpaces THEN Trim(CollapseWhitespace(input)) ELSE input
        b == IF ~c.caseSensitive THEN ToLowerCase(a) ELSE a
    IN  applyMathematicalNormalizations(b)

(***************************************************************************)
(* Numbers.  A value of the runtime is a record [k, n, d]:                 *)
(*   k = "num"    the finite number n/d (a double is modelled by the       *)
(*                rational it stands for; rounding is not modelled),       *)
(*   k = "inf"    +Infinity (n = 1) or -Infinity (n = -1),                 *)
(*   k = "nan"    NaN,                                                     *)
(*   k = "obj"    a value that is not of type number (a Complex, ...),     *)
(*   k = "undef"  undefined,                                               *)
(*   k = "throw"  no value: the call threw.                                *)
(***************************************************************************)
Num(n, d) == [k |-> "num", n |-> Rat(n, d).n, d |-> Rat(n, d).d]
Inf(sign) == [k |-> "inf", n |-> sign, d |-> 0]
NaN       == [k |-> "nan", n |-> 0, d |-> 0]
Obj       == [k |-> "obj", n |-> 0, d |-> 0]
Undefined == [k |-> "undef", n |-> 0, d |-> 0]
Thrown    == [k |-> "throw", n |-> 0, d |-> 0]

\* The constructor's defaults (config.x ?? default).
DefaultTolerance == Num(1, 100)
DefaultConfig ==
    [tolerance |-> DefaultTolerance, caseSensitive |-> FALSE, stripSpaces |-> TRUE]

Sign(n) == IF n < 0 THEN -1 ELSE IF n > 0 THEN 1 ELSE 0

\* typeof v === 'number', isNaN(v), isFinite(v)
IsTypeNumber(v) == v.k \in {"num", "inf", "nan"}
IsFiniteNumber(v) == v.k = "num"

Neg(a) ==
    CASE a.k = "num" -> Num(-a.n, a.d)
      [] a.k = "inf" -> Inf(-a.n)
      [] OTHER -> a

\* Operands that decide the result before any arithmetic is done.
Poisoned(a, b) == a.k \in {"throw", "obj", "undef", "nan"} \/ b.k \in {"throw", "obj", "undef", "nan"}
Poison(a, b) ==
    CASE a.k = "throw" \/ b.k = "throw" -> Thrown
      [] a.k = "undef" \/ b.k = "undef" -> Thrown
      [] a.k = "obj" \/ b.k = "obj" -> Obj
      [] OTHER -> NaN

Add(a, b) ==
    IF Poisoned(a, b) THEN Poison(a, b)
    ELSE IF a.k = "inf" /\ b.k = "inf" THEN (IF a.n = b.n THEN a ELSE NaN)
    ELSE IF a.k = "inf" THEN a
    ELSE IF b.k = "inf" THEN b
    ELSE Num(a.n * b.d + b.n * a.d, a.d * b.d)

Sub(a, b) == Add(a, Neg(b))

Mul(a, b) ==
    IF Poisoned(a, b) THEN Poison(a, b)
    ELSE IF a.k = "inf" \/ b.k = "inf"
         THEN (IF Sign(a.n) * Sign(b.n) = 0 THEN NaN ELSE Inf(Sign(a.n) * Sign(b.n)))
    ELSE Num(a.n * b.n, a.d * b.d)

Div(a, b) ==
    IF Poisoned(a, b) THEN Poison(a, b)
    ELSE IF a.k = "inf" THEN (IF b.k = "inf" THEN NaN ELSE Inf(a.n * (IF b.n < 0 THEN -1 ELSE 1)))
    ELSE IF b.k = "inf" THEN Num(0, 1)
    ELSE IF b.n = 0 THEN (IF a.n = 0 THEN NaN ELSE Inf(Sign(a.n)))
    ELSE Num(a.n * b.d, a.d * b.n)

RECURSIVE IntPow(_, _)
IntPow(b, e) == IF e = 0 THEN 1 ELSE b * IntPow(b, e - 1)

\* a ^ b for an integer exponent b (other exponents are outside the modelled fragment).
Pow(a, b) ==
    IF Poisoned(a, b) THEN Poison(a, b)
    ELSE IF a.k = "inf" \/ b.k = "inf" \/ b.d # 1 THEN NaN
    ELSE IF b.n >= 0 THEN Num(IntPow(a.n, b.n), IntPow(a.d, b.n))
    ELSE IF a.n = 0 THEN Inf(1)
    ELSE Num(IntPow(a.d, -b.n), IntPow(a.n, -b.n))

\* Math.abs(a - b) <= tolerance; any comparison with NaN is false.
AbsValue(a) == IF a.k = "num" THEN Num(Abs(a.n), a.d) ELSE IF a.k = "inf" THEN Inf(1) ELSE a
LessEq(a, b) ==
    CASE a.k = "num" /\ b.k = "num" -> a.n * b.d <= b.n * a.d
      [] a.k = "inf" /\ b.k = "num" -> a.n < 0
      [] a.k = "num" /\ b.k = "inf" -> b.n > 0
      [] a.k = "inf" /\ b.k = "inf" -> a.n <= b.n
      [] OTHER -> FALSE
Less(a, b) == LessEq(a, b) /\ ~LessEq(b, a)
SameNumber(a, b) == LessEq(a, b) /\ LessEq(b, a)

(***************************************************************************)
(* Number literals: digits [. digits] [e [+-] digits]                      *)
(***************************************************************************)
RECURSIVE CountDigits(_)
CountDigits(s) == IF s # <<>> /\ IsDigit(s[1]) THEN 1 + CountDigits(Tail(s)) ELSE 0

RECURSIVE DigitsToInt(_)
DigitsToInt(s) ==
    IF s = <<>> THEN 0 ELSE DigitsToInt(Take(s, Len(s) - 1)) * 10 + DigitValue(s[Len(s)])

\* The largest decimal exponent of a finite double (Number.MAX_VALUE is below 1.8e308).
MaxDoubleExponent == 308

\* The longest prefix of s that is an unsigned decimal literal: [len, v]; len = 0 if
\* none.  The scan goes through the integer digits (ni of them), the fraction digits
\* (nf of them) and the exponent (sgn: it has a sign; ne digits).
HasPoint(s, ni) == Len(s) > ni /\ s[ni + 1] = "."

Mantissa(s, ni, nf) ==
    Num(DigitsToInt(SubSeq(s, 1, ni)) * IntPow(10, nf)
          + DigitsToInt(SubSeq(s, ni + 2, ni + 1 + nf)), IntPow(10, nf))

HasExponentSign(rest) ==
    rest # <<>> /\ rest[1] \in {"e", "E"} /\ Len(rest) > 1 /\ rest[2] \in {"+", "-"}

ExponentDigits(rest, sgn) ==
    IF rest # <<>> /\ rest[1] \in {"e", "E"} THEN CountDigits(Drop(rest, 1 + sgn)) ELSE 0

Scaled(mant, ev, neg) ==
    IF mant.n = 0 THEN mant
    ELSE IF ~neg /\ ev > MaxDoubleExponent THEN Inf(1)
    ELSE IF neg THEN Div(mant, Num(IntPow(10, ev), 1))
    ELSE Mul(mant, Num(IntPow(10, ev), 1))

ScanExponent(mLen, mant, rest, sgn, ne) ==
    IF ne = 0 THEN [len |-> mLen, v |-> mant]
    ELSE [len |-> mLen + 1 + sgn + ne,
          v   |-> Scaled(mant, DigitsToInt(SubSeq(rest, 2 + sgn, 1 + sgn + ne)),
                         sgn = 1 /\ rest[2] = "-")]

ScanAfterSign(mLen, mant, rest, sgn) ==
    ScanExponent(mLen, mant, rest, sgn, ExponentDigits(rest, sgn))

ScanAfterMantissa(s, mLen, mant) ==
    ScanAfterSign(mLen, mant, Drop(s, mLen), IF HasExponentSign(Drop(s, mLen)) THEN 1 ELSE 0)

ScanFraction(s, ni, nf) ==
    IF ni + nf = 0 THEN [len |-> 0, v |-> NaN]
    ELSE ScanAfterMantissa(s, IF HasPoint(s, ni) THEN ni + 1 + nf ELSE ni, Mantissa(s, ni, nf))

ScanInteger(s, ni) ==
    ScanFraction(s, ni, IF HasPoint(s, ni) THEN CountDigits(Drop(s, ni + 1)) ELSE 0)

ScanNumber(s) == ScanInteger(s, CountDigits(s))

\* parseFloat(s): leading whitespace skipped, an optional sign, then the longest
\* decimal literal (or "Infinity"); NaN when there is none.  What follows is ignored.
ParseUnsigned(body, sc) ==
    IF StartsWith(body, <<"I","n","f","i","n","i","t","y">>) THEN Inf(1)
    ELSE IF sc.len = 0 THEN NaN ELSE sc.v

ParseSigned(t, sg) ==
    IF sg = 1 /\ t[1] = "-"
    THEN Neg(ParseUnsigned(Drop(t, sg), ScanNumber(Drop(t, sg))))
    ELSE ParseUnsigned(Drop(t, sg), ScanNumber(Drop(t, sg)))

ParseTrimmed(t) == ParseSigned(t, IF t # <<>> /\ t[1] \in {"+", "-"} THEN 1 ELSE 0)

parseFloat(s) == ParseTrimmed(TrimLeft(s))


(***************************************************************************)
(* evaluate(expression, scope) of the expression engine (mathjs), for the  *)
(* fragment: decimal literals, the names pi, e, i and the variables of the *)
(* scope, + - * / ^, unary sign, parentheses.  Whitespace is skipped.      *)
(* Anything else is a syntax error or an undefined symbol: it throws.      *)
(***************************************************************************)
RECURSIVE RemoveWhitespace(_)
RemoveWhitespace(s) ==
    IF s = <<>> THEN <<>>
    ELSE IF IsWhitespace(s[1]) THEN RemoveWhitespace(Tail(s))
         ELSE <<s[1]>> \o RemoveWhitespace(Tail(s))

ParenDepthBefore(s, k) ==
    Cardinality({j \in 1..(k - 1) : s[j] = "("}) - Cardinality({j \in 1..(k - 1) : s[j] = ")"})

\* s[k] is an operator between two operands, outside every parenthesis.
IsBinaryAt(s, k) ==
    /\ k > 1 /\ k < Len(s)
    /\ s[k - 1] \notin {"+", "-", "*", "/", "^", "("}
    /\ ~(s[k] \in {"+", "-"} /\ s[k - 1] \in {"e", "E"} /\ k > 2 /\ IsDigit(s[k - 2])
           /\ IsDigit(s[k + 1]))
    /\ ParenDepthBefore(s, k) = 0

LastBinary(s, ops) ==
    LET ks == {k \in 1..Len(s) : s[k] \in ops /\ IsBinaryAt(s, k)}
    IN  IF ks = {} THEN 0 ELSE CHOOSE k \in ks : \A j \in ks : j <= k

FirstBinary(s, ops) ==
    LET ks == {k \in 1..Len(s) : s[k] \in ops /\ IsBinaryAt(s, k)}
    IN  IF ks = {} THEN 0 ELSE CHOOSE k \in ks : \A j \in ks : j >= k

BalancedParens(s) ==
    /\ ParenDepthBefore(s, Len(s) + 1) = 0
    /\ \A k \in 1..Len(s) : ParenDepthBefore(s, k + 1) >= 0

\* The constants of the engine, as rationals close to their double values.
ConstPi == Num(355, 113)
ConstE  == Num(193, 71)

\* A name: a constant of the engine, a variable of the scope, or an undefined symbol.
EvalSymbol(s, scope) ==
    IF Len(s) = 1 /\ s[1] \in DOMAIN scope THEN scope[s[1]]
    ELSE CASE s = <<"p","i">> -> ConstPi
           [] s = <<"e">>     -> ConstE
           [] s = <<"i">>     -> Obj
           [] OTHER -> Thrown

\* kAdd, kMul: the last + or -, the last * or /, outside parentheses and between
\* operands (0: none); kPow: the first ^ of that kind; sc: the literal s begins with.
RECURSIVE EvalExpr(_, _)
EvalSplit(s, scope, kAdd, kMul, kPow, sc) ==
    IF s = <<>> \/ ~BalancedParens(s) THEN Thrown
    ELSE IF kAdd > 0 THEN
        (IF s[kAdd] = "+"
         THEN Add(EvalExpr(Take(s, kAdd - 1), scope), EvalExpr(Drop(s, kAdd), scope))
         ELSE Sub(EvalExpr(Take(s, kAdd - 1), scope), EvalExpr(Drop(s, kAdd), scope)))
    ELSE IF kMul > 0 THEN
        (IF s[kMul] = "*"
         THEN Mul(EvalExpr(Take(s, kMul - 1), scope), EvalExpr(Drop(s, kMul), scope))
         ELSE Div(EvalExpr(Take(s, kMul - 1), scope), EvalExpr(Drop(s, kMul), scope)))
    ELSE IF s[1] = "-" THEN Neg(EvalExpr(Tail(s), scope))
    ELSE IF s[1] = "+" THEN EvalExpr(Tail(s), scope)
    ELSE IF kPow > 0 THEN
        Pow(EvalExpr(Take(s, kPow - 1), scope), EvalExpr(Drop(s, kPow), scope))
    ELSE IF s[1] = "(" /\ s[Len(s)] = ")" THEN EvalExpr(SubSeq(s, 2, Len(s) - 1), scope)
    ELSE IF sc.len = Len(s) THEN sc.v
    ELSE EvalSymbol(s, scope)

EvalExpr(s, scope) ==
    EvalSplit(s, scope, LastBinary(s, {"+", "-"}), LastBinary(s, {"*", "/"}),
              FirstBinary(s, {"^"}), ScanNumber(s))

\* evaluate(expression [, scope]): the empty expression evaluates to undefined.
evaluate(expression, scope) ==
    LET s == RemoveWhitespace(expression)
    IN  IF s = <<>> THEN Undefined ELSE EvalExpr(s, scope)

(***************************************************************************)
(* derivative(parse(expression), variable).evaluate(scope) of the engine,  *)
(* for the same fragment: the value at the scope of the derivative with    *)
(* respect to the variable, by the rules of differentiation.  A power      *)
(* whose exponent holds the variable is outside the fragment.              *)
(***************************************************************************)
HoldsVariable(s, var) == \E j \in 1..Len(s) : s[j] = var

\* The operator at which the expression tree is split: the last additive one, else
\* the last multiplicative one, else (without a leading sign) the first power; 0: none.
SplitIndex(s) ==
    IF s = <<>> THEN 0
    ELSE IF LastBinary(s, {"+", "-"}) > 0 THEN LastBinary(s, {"+", "-"})
    ELSE IF LastBinary(s, {"*", "/"}) > 0 THEN LastBinary(s, {"*", "/"})
    ELSE IF s[1] \in {"-", "+"} THEN 0
    ELSE FirstBinary(s, {"^"})

\* The derivative of a binary node from the derivatives (dL, dR) and the values
\* (vL, vR) of its sides; constL, constR: the side does not hold the variable.
DerivBinary(operator, constL, constR, dL, dR, vL, vR) ==
    IF operator = "+" THEN Add(dL, dR)
    ELSE IF operator = "-" THEN Sub(dL, dR)
    ELSE IF operator = "*" THEN
        (IF constL THEN Mul(vL, dR)
         ELSE IF constR THEN Mul(vR, dL)
         ELSE Add(Mul(dL, vR), Mul(vL, dR)))
    ELSE IF operator = "/" THEN
        (IF constR THEN Div(dL, vR)
         ELSE IF constL THEN Mul(vL, Div(Neg(dR), Mul(vR, vR)))
         ELSE Div(Sub(Mul(dL, vR), Mul(vL, dR)), Mul(vR, vR)))
    ELSE IF ~constR THEN NaN
    ELSE Mul(Mul(vR, Pow(vL, Sub(vR, Num(1, 1)))), dL)

RECURSIVE DerivExpr(_, _, _)
DerivSides(operator, left, right, scope, var) ==
    DerivBinary(operator, ~HoldsVariable(left, var), ~HoldsVariable(right, var),
                DerivExpr(left, scope, var), DerivExpr(right, scope, var),
                EvalExpr(left, scope), EvalExpr(right, scope))

DerivExpr(s, scope, var) ==
    IF s = <<>> \/ ~BalancedParens(s) THEN Thrown
    \* a subtree without the variable is a constant node: its derivative is 0
    ELSE IF ~HoldsVariable(s, var) THEN Num(0, 1)
    ELSE IF SplitIndex(s) > 0
         THEN DerivSides(s[SplitIndex(s)], Take(s, SplitIndex(s) - 1), Drop(s, SplitIndex(s)),
                         scope, var)
    ELSE IF s[1] = "-" THEN Neg(DerivExpr(Tail(s), scope, var))
    ELSE IF s[1] = "+" THEN DerivExpr(Tail(s), scope, var)
    ELSE IF s[1] = "(" /\ s[Len(s)] = ")" THEN DerivExpr(SubSeq(s, 2, Len(s) - 1), scope, var)
    ELSE IF s = <<var>> THEN Num(1, 1)
    ELSE Thrown

\* parse(expression) throws on a syntax error and evaluate on a name that the scope
\* does not hold.
derivativeAt(expression, var, scope) ==
    IF RemoveWhitespace(expression) = <<>> THEN Thrown
    ELSE IF EvalExpr(RemoveWhitespace(expression), scope).k = "throw" THEN Thrown
    ELSE DerivExpr(RemoveWhitespace(expression), scope, var)

NoScope == <<>>

\* safeEvaluate: evaluate() runs to completion inside the promise executor, so the
\* timer is always cleared before it can fire; the promise resolves with the value
\* or rejects with the error evaluate() threw.
safeEvaluate(expression, scope) == evaluate(expression, scope)


(***************************************************************************)
(* ValidationResult and the helpers of BaseSelector                        *)
(***************************************************************************)
OkTrue  == "true"
OkFalse == "false"
OkNull  == "null"

\* !result.ok
NotOk(r) == r.ok # OkTrue

\* The metadata given to createErrorResponse / createSuccessResponse is spread over
\* the default type, so a type in it replaces the default.
NoMetadata == [x \in {} |-> 0]

createErrorResponse(title, message, metadata) ==
    [ok |-> OkFalse, title |-> title, msg |-> message,
     metadata |-> metadata @@ [type |-> "error"]]

createSuccessResponse(title, message, metadata) ==
    [ok |-> OkTrue, title |-> title, msg |-> message,
     metadata |-> metadata @@ [type |-> "success"]]

\* The value of an answer that is not a string (a field the caller left out); the
\* strings of the model are sequences of single characters, so none equals it.
NotAString == <<"undefined">>

\* An exception on its way out of a validator, in the place of the result.
OkThrown == "throw"
TypeErrorThrown ==
    [ok |-> OkThrown, title |-> "TypeError", msg |-> "input.trim is not a function",
     metadata |-> [type |-> "TypeError"]]

\* A validateEmpty that tests !input only and does not trim.
validateEmptyUntrimmed(input) ==
    IF input = <<>> \/ input = NotAString
    THEN << [ok |-> OkNull, title |-> "Atencion", msg |-> "No has ingresado una respuesta",
             metadata |-> [type |-> "empty_input", originalInput |-> input]] >>
    ELSE <<>>

\* validateEmpty: <<>> stands for the null it returns on a non-empty input.  It is
\* the first statement of every validate and compare, outside their try blocks, so
\* the TypeError of input.trim() on an answer that is not a string leaves the
\* validator: the callers below hand on what validateEmpty gives.
validateEmpty(input) ==
    IF input = NotAString THEN <<TypeErrorThrown>>
    ELSE IF Trim(input) = <<>>
    THEN << [ok |-> OkNull, title |-> "Atencion", msg |-> "No has ingresado una respuesta",
             metadata |-> [type |-> "empty_input", originalInput |-> input]] >>
    ELSE <<>>

\* a - b without Math.abs.
SignedDifference(a, b) ==
    IF IsTypeNumber(a) /\ IsTypeNumber(b) THEN Sub(a, b) ELSE NaN

\* Math.abs(a - b) on two values of the host language.
AbsDifference(a, b) ==
    IF IsTypeNumber(a) /\ IsTypeNumber(b) THEN AbsValue(Sub(a, b)) ELSE NaN

\* difference < this.config.tolerance
IsBelowTolerance(difference, tolerance) == Less(difference, tolerance)

\* difference <= this.config.tolerance
IsWithinTolerance(difference, tolerance) == LessEq(difference, tolerance)

(***************************************************************************)
(* NumberSelector                                                          *)
(***************************************************************************)
NumberValidate(input, c) ==
    LET Decide(emptyCheck, normalized, value) ==
        IF emptyCheck # <<>> THEN emptyCheck[1]
        ELSE IF value.k = "throw" THEN
            createErrorResponse("Error de evaluacion", "No se pudo evaluar la expresion como numero",
                                [type |-> "evaluation_error"])
        ELSE IF IsTypeNumber(value) /\ value.k # "nan" /\ IsFiniteNumber(value) THEN
            createSuccessResponse("Numero valido", "es un numero valido",
                                  [type |-> "number_validation", originalInput |-> input,
                                   processedInput |-> normalized, evaluatedValue |-> value])
        ELSE
            createErrorResponse("Cuidado", "Tu respuesta no representa un numero valido",
                                [type |-> "invalid_number", evaluatedValue |-> value])
    IN  Decide(validateEmpty(input), normalizeInput(input, c),
               safeEvaluate(normalizeInput(input, c), NoScope))

NumberCompare(correctAnswer, userInput, c) ==
    LET Decide(emptyCheck, validation, correctValue, userValue, difference) ==
            IF emptyCheck # <<>> THEN emptyCheck[1]
            ELSE IF NotOk(validation[correctAnswer]) THEN
                createErrorResponse("Error del sistema",
                                    "La respuesta correcta no es un numero valido",
                                    [type |-> "system_error"])
            ELSE IF NotOk(validation[userInput]) THEN validation[userInput]
            ELSE IF correctValue.k = "throw" \/ userValue.k = "throw" THEN
                createErrorResponse("Error de comparacion",
                                    "No se pudo comparar las respuestas numericas",
                                    [type |-> "comparison_error"])
            ELSE IF IsWithinTolerance(difference, c.tolerance) THEN
                createSuccessResponse("Excelente", "Has encontrado la respuesta correcta",
                                      [type |-> "correct_answer", correctValue |-> correctValue,
                                       userValue |-> userValue, difference |-> difference,
                                       tolerance |-> c.tolerance, withinTolerance |-> TRUE])
            ELSE
                createErrorResponse("Sigue intentando", "Tu respuesta difiere",
                                    [type |-> "tolerance_exceeded", correctValue |-> correctValue,
                                     userValue |-> userValue, difference |-> difference,
                                     tolerance |-> c.tolerance, withinTolerance |-> FALSE])
    IN  Decide(validateEmpty(userInput),
               [answer \in {correctAnswer, userInput} |-> NumberValidate(answer, c)],
               safeEvaluate(normalizeInput(correctAnswer, c), NoScope),
               safeEvaluate(normalizeInput(userInput, c), NoScope),
               AbsDifference(safeEvaluate(normalizeInput(correctAnswer, c), NoScope),
                             safeEvaluate(normalizeInput(userInput, c), NoScope)))

(***************************************************************************)
(* VectorSelector                                                          *)
(***************************************************************************)
\* /^\s*\[\s*[^\[\]]*\s*\]\s*$/
hasVectorFormat(input) ==
    LET t == Trim(input)
    IN  /\ Len(t) >= 2 /\ t[1] = "[" /\ t[Len(t)] = "]"
        /\ \A i \in 2..(Len(t) - 1) : t[i] \notin {"[", "]"}

extractVectorComponents(input) ==
    LET content == SubSeq(input, IndexOf(input, "[") + 1, LastIndexOf(input, "]") - 1)
    IN  FilterNonEmpty(TrimEach(Split(content, ",")))

\* The first component the validation loop stops at (0: none); a component fails
\* when its evaluation throws or its value is not a finite number.
NotFiniteNumber(value) == value.k = "throw" \/ ~IsTypeNumber(value) \/ ~IsFiniteNumber(value)

ComponentFails(component) ==
    component = <<>> \/ NotFiniteNumber(safeEvaluate(component, NoScope))

\* The least member of a set of positive integers (0: the set is empty).
Least(S) == IF S = {} THEN 0 ELSE CHOOSE i \in S : \A j \in S : i <= j

FirstFailing(components) ==
    Least({i \in 1..Len(components) : ComponentFails(components[i])})

\* Promise.all over the evaluations rejects when one of them rejects.
AnyThrown(values) == \E i \in 1..Len(values) : values[i].k = "throw"

EvaluateAll(components) ==
    [i \in 1..Len(components) |-> safeEvaluate(components[i], NoScope)]

\* The loop of validate over the components, i being the first that fails (0: none),
\* and the response after it.
VectorValidateComponents(components, i) ==
    LET Decide(value, values) ==
            IF i # 0 /\ components[i] = <<>> THEN
                createErrorResponse("Componente invalido", "El componente esta vacio o indefinido",
                                    [type |-> "invalid_component", componentIndex |-> i - 1])
            ELSE IF i # 0 /\ value.k = "throw" THEN
                createErrorResponse("Error de evaluacion", "No se pudo evaluar el componente",
                                    [type |-> "evaluation_error", componentIndex |-> i - 1])
            ELSE IF i # 0 THEN
                createErrorResponse("Componente invalido", "El componente no es un numero valido",
                                    [type |-> "invalid_component", componentIndex |-> i - 1,
                                     evaluatedValue |-> value])
            ELSE
                createSuccessResponse("Vector valido", "es un vector",
                                  [type |-> "valid_vector", dimension |-> Len(components),
                                   components |-> values])
    IN  Decide(safeEvaluate(components[i], NoScope), EvaluateAll(components))

VectorValidate(input, c) ==
    LET Decide(emptyCheck, normalized, components) ==
            IF emptyCheck # <<>> THEN emptyCheck[1]
            ELSE IF ~hasVectorFormat(normalized) THEN
                createErrorResponse("Error de formato", "Un vector debe tener la forma [a, b, c, ...]",
                                    [type |-> "invalid_format"])
            ELSE components
    IN  Decide(validateEmpty(input), normalizeInput(input, c),
               VectorValidateComponents(extractVectorComponents(normalizeInput(input, c)),
                   FirstFailing(extractVectorComponents(normalizeInput(input, c)))))

\* correctComponents.length > userComponents.length
CorrectIsLonger(correctComponents, userComponents) ==
    Len(correctComponents) > Len(userComponents)

\* correctComponents.length !== userComponents.length
DimensionsDiffer(correctComponents, userComponents) ==
    Len(correctComponents) # Len(userComponents)

\* correctValues.map((correctVal, i) => ...): one entry per correct value; a user
\* value that is missing is undefined.
ComponentMatches(correctValues, userValues, tolerance) ==
    [i \in 1..Len(correctValues) |->
        [index |-> i - 1,
         matches |-> IsWithinTolerance(
                         AbsDifference(correctValues[i],
                             IF i <= Len(userValues) THEN userValues[i] ELSE Undefined),
                         tolerance),
         difference |-> AbsDifference(correctValues[i],
                            IF i <= Len(userValues) THEN userValues[i] ELSE Undefined)]]

\* The comparison of compare once both answers are valid and of one dimension.
VectorCompareValues(correctValues, userValues, componentMatches, c) ==
    LET Judge(matchCount) ==
            IF AnyThrown(correctValues) \/ AnyThrown(userValues) THEN
                createErrorResponse("Error de comparacion", "No se pudo comparar los vectores",
                                    [type |-> "comparison_error"])
            ELSE IF matchCount = Len(componentMatches) THEN
                createSuccessResponse("Excelente", "Tu vector coincide exactamente con la solucion",
                                      [type |-> "perfect_vector_match",
                                       dimension |-> Len(correctValues),
                                       componentMatches |-> componentMatches])
            ELSE
                createErrorResponse("Vector incorrecto", "componentes son correctos",
                                    [type |-> "partial_vector_match",
                                     dimension |-> Len(correctValues),
                                     correctComponents |-> matchCount,
                                     componentMatches |-> componentMatches,
                                     tolerance |-> c.tolerance])
    IN  Judge(Cardinality({i \in 1..Len(componentMatches) : componentMatches[i].matches}))

VectorCompareComponents(correctComponents, userComponents, c) ==
    IF DimensionsDiffer(correctComponents, userComponents) THEN
        createErrorResponse("Dimension incorrecta", "Tu vector tiene otro numero de componentes",
                            [type |-> "dimension_mismatch",
                             expectedDimension |-> Len(correctComponents),
                             actualDimension |-> Len(userComponents)])
    ELSE VectorCompareValues(EvaluateAll(correctComponents), EvaluateAll(userComponents),
                          ComponentMatches(EvaluateAll(correctComponents), EvaluateAll(userComponents), c.tolerance), c)

VectorCompare(correctAnswer, userInput, c) ==
    LET Decide(emptyCheck, validation, compared) ==
            IF emptyCheck # <<>> THEN emptyCheck[1]
            ELSE IF NotOk(validation[correctAnswer]) THEN
                createErrorResponse("Error del sistema", "El vector de respuesta correcta es invalido", NoMetadata)
            ELSE IF NotOk(validation[userInput]) THEN validation[userInput]
            ELSE compared
    IN  Decide(validateEmpty(userInput),
               [answer \in {correctAnswer, userInput} |-> VectorValidate(answer, c)],
               VectorCompareComponents(extractVectorComponents(normalizeInput(correctAnswer, c)),
                   extractVectorComponents(normalizeInput(userInput, c)), c))

(***************************************************************************)
(* PointSelector                                                           *)
(***************************************************************************)
\* /^\s*\(\s*[^\(\)]*\s*\)\s*$/
hasPointFormat(input) ==
    LET t == Trim(input)
    IN  /\ Len(t) >= 2 /\ t[1] = "(" /\ t[Len(t)] = ")"
        /\ \A i \in 2..(Len(t) - 1) : t[i] \notin {"(", ")"}

extractPointCoordinates(input) ==
    LET content == SubSeq(input, IndexOf(input, "(") + 1, LastIndexOf(input, ")") - 1)
    IN  FilterNonEmpty(TrimEach(Split(content, ",")))

\* The loop of validate over the coordinates, i being the first that fails (0: none),
\* and the response after it.
PointValidateCoordinates(coordinates, i) ==
    LET Decide(value, values) ==
            IF i # 0 /\ coordinates[i] = <<>> THEN
                createErrorResponse("Coordenada vacia", "La coordenada esta vacia",
                                    [type |-> "empty_coordinate", coordinateIndex |-> i - 1])
            ELSE IF i # 0 /\ value.k = "throw" THEN
                createErrorResponse("Error de evaluacion", "No se pudo evaluar la coordenada",
                                    [type |-> "evaluation_error", coordinateIndex |-> i - 1])
            ELSE IF i # 0 THEN
                createErrorResponse("Coordenada invalida", "La coordenada no es un numero valido",
                                    [type |-> "invalid_coordinate", coordinateIndex |-> i - 1,
                                     evaluatedValue |-> value])
            ELSE
                createSuccessResponse("Punto valido", "es un punto valido",
                                  [type |-> "valid_point", dimension |-> Len(coordinates),
                                   coordinates |-> values,
                                   pointType |-> IF Len(coordinates) = 2 THEN "punto_2d"
                                                 ELSE IF Len(coordinates) = 3 THEN "punto_3d"
                                                 ELSE IF Len(coordinates) > 3 THEN "punto_nd"
                                                 ELSE "punto"])
    IN  Decide(safeEvaluate(coordinates[i], NoScope), EvaluateAll(coordinates))

PointValidate(input, c) ==
    LET Decide(emptyCheck, normalized, coordinates) ==
            IF emptyCheck # <<>> THEN emptyCheck[1]
            ELSE IF ~hasPointFormat(normalized) THEN
                createErrorResponse("Error de formato", "Un punto debe tener la forma (a, b) o (a, b, c, ...)",
                                    [type |-> "invalid_format"])
            ELSE coordinates
    IN  Decide(validateEmpty(input), normalizeInput(input, c),
               PointValidateCoordinates(extractPointCoordinates(normalizeInput(input, c)),
                   FirstFailing(extractPointCoordinates(normalizeInput(input, c)))))

\* The comparison of compare once both answers are valid and of one dimension.
PointCompareValues(correctValues, userValues, coordinateMatches, c) ==
    LET Judge(matchCount) ==
            IF AnyThrown(correctValues) \/ AnyThrown(userValues) THEN
                createErrorResponse("Error de comparacion", "No se pudo comparar los puntos",
                                    [type |-> "comparison_error"])
            ELSE IF matchCount = Len(coordinateMatches) THEN
                createSuccessResponse("Excelente", "Tu punto coincide exactamente con la solucion",
                                      [type |-> "perfect_point_match",
                                       dimension |-> Len(correctValues),
                                       coordinateMatches |-> coordinateMatches])
            ELSE
                createErrorResponse("Punto incorrecto", "coordenadas son correctas",
                                    [type |-> "partial_point_match",
                                     dimension |-> Len(correctValues),
                                     correctCoordinates |-> matchCount,
                                     coordinateMatches |-> coordinateMatches,
                                     tolerance |-> c.tolerance])
    IN  Judge(Cardinality({i \in 1..Len(coordinateMatches) : coordinateMatches[i].matches}))

PointCompareCoordinates(correctCoords, userCoords, c) ==
    IF DimensionsDiffer(correctCoords, userCoords) THEN
        createErrorResponse("Dimension incorrecta", "Tu punto tiene otro numero de coordenadas",
                            [type |-> "dimension_mismatch",
                             expectedDimension |-> Len(correctCoords),
                             actualDimension |-> Len(userCoords)])
    ELSE PointCompareValues(EvaluateAll(correctCoords), EvaluateAll(userCoords),
                          ComponentMatches(EvaluateAll(correctCoords), EvaluateAll(userCoords), c.tolerance), c)

PointCompare(correctAnswer, userInput, c) ==
    LET Decide(emptyCheck, validation, compared) ==
            IF emptyCheck # <<>> THEN emptyCheck[1]
            ELSE IF NotOk(validation[correctAnswer]) THEN
                createErrorResponse("Error del sistema", "El punto de respuesta correcta es invalido", NoMetadata)
            ELSE IF NotOk(validation[userInput]) THEN validation[userInput]
            ELSE compared
    IN  Decide(validateEmpty(userInput),
               [answer \in {correctAnswer, userInput} |-> PointValidate(answer, c)],
               PointCompareCoordinates(extractPointCoordinates(normalizeInput(correctAnswer, c)),
                   extractPointCoordinates(normalizeInput(userInput, c)), c))


(***************************************************************************)
(* Number.prototype.toString and the default order of Array.prototype.sort *)
(* (elements are compared as strings, by UTF-16 code unit), for decimals   *)
(* with a terminating expansion, the infinities and NaN.                   *)
(***************************************************************************)
RECURSIVE IntToDigits(_)
IntToDigits(n) ==
    IF n < 10 THEN <<Digits[n + 1]>> ELSE IntToDigits(n \div 10) \o <<Digits[(n % 10) + 1]>>

\* The digits of the fraction r/d (0 <= r < d), d dividing a power of ten.
RECURSIVE FractionDigits(_, _)
FractionDigits(r, d) ==
    IF r = 0 THEN <<>>
    ELSE <<Digits[((r * 10) \div d) + 1]>> \o FractionDigits((r * 10) % d, d)

NumberToString(v) ==
    CASE v.k = "nan" -> <<"N","a","N">>
      [] v.k = "inf" -> (IF v.n < 0 THEN <<"-">> ELSE <<>>) \o <<"I","n","f","i","n","i","t","y">>
      [] v.k = "num" ->
            (IF v.n < 0 THEN <<"-">> ELSE <<>>)
            \o IntToDigits(Abs(v.n) \div v.d)
            \o (IF Abs(v.n) % v.d = 0 THEN <<>>
                ELSE <<".">> \o FractionDigits(Abs(v.n) % v.d, v.d))

\* The characters of such strings, in code-unit order.
CodeOrder == <<"-", ".", "0", "1", "2", "3", "4", "5", "6", "7", "8", "9",
               "I", "N", "a", "f", "i", "n", "t", "y">>
CodeRank(ch) == CHOOSE i \in 1..Len(CodeOrder) : CodeOrder[i] = ch

RECURSIVE StringLess(_, _)
StringLess(a, b) ==
    IF b = <<>> THEN FALSE
    ELSE IF a = <<>> THEN TRUE
    ELSE IF a[1] = b[1] THEN StringLess(Tail(a), Tail(b))
    ELSE CodeRank(a[1]) < CodeRank(b[1])

\* array.sort() with no comparator: stable, ascending by the elements' strings.
RECURSIVE InsertByString(_, _)
InsertByString(sorted, v) ==
    IF sorted = <<>> THEN <<v>>
    ELSE IF StringLess(NumberToString(v), NumberToString(sorted[Len(sorted)]))
         THEN InsertByString(Take(sorted, Len(sorted) - 1), v) \o <<sorted[Len(sorted)]>>
         ELSE sorted \o <<v>>

RECURSIVE SortDefault(_)
SortDefault(values) ==
    IF values = <<>> THEN <<>>
    ELSE InsertByString(SortDefault(Take(values, Len(values) - 1)), values[Len(values)])

\* array.sort((a, b) => a - b) on numbers none of which is NaN.
RECURSIVE InsertNumeric(_, _)
InsertNumeric(sorted, v) ==
    IF sorted = <<>> THEN <<v>>
    ELSE IF Less(v, sorted[Len(sorted)])
         THEN InsertNumeric(Take(sorted, Len(sorted) - 1), v) \o <<sorted[Len(sorted)]>>
         ELSE sorted \o <<v>>

RECURSIVE SortNumeric(_)
SortNumeric(values) ==
    IF values = <<>> THEN <<>>
    ELSE InsertNumeric(SortNumeric(Take(values, Len(values) - 1)), values[Len(values)])

\* [...new Set(values)]: first occurrences, in order (NaN equals NaN in a Set).
RECURSIVE UniqueValues(_)
UniqueValues(values) ==
    IF values = <<>> THEN <<>>
    ELSE LET front == Take(values, Len(values) - 1)
             v     == values[Len(values)]
         IN  IF \E j \in 1..Len(front) : front[j] = v
             THEN UniqueValues(front)
             ELSE UniqueValues(front) \o <<v>>

(***************************************************************************)
(* SetSelector                                                             *)
(***************************************************************************)
\* input.replace(/<cup>/g, "U").split("U").map(trim).filter(part => part !== '')
parseUnionParts(input) ==
    FilterNonEmpty(TrimEach(Split(ReplaceAll(input, <<gCup>>, <<"U">>), "U")))

\* /^[\(\[]([^,\[\]\(\)]+),([^,\[\]\(\)]+)[\)\]]$/ on str.trim()
isInterval(str) ==
    LET Matches(t, content, k) ==
            /\ Len(t) >= 2
            /\ t[1] \in {"(", "["} /\ t[Len(t)] \in {")", "]"}
            /\ k > 1 /\ k < Len(content)
            /\ \A j \in 1..Len(content) :
                  /\ content[j] \notin {"[", "]", "(", ")"}
                  /\ (content[j] = "," => j = k)
    IN  Matches(Trim(str), SubSeq(Trim(str), 2, Len(Trim(str)) - 1),
                IndexOf(SubSeq(Trim(str), 2, Len(Trim(str)) - 1), ","))

\* /^\{[^}]*\}$/ on str.trim()
isDiscreteSet(str) ==
    LET Matches(t) ==
            /\ Len(t) >= 2 /\ t[1] = "{" /\ t[Len(t)] = "}"
            /\ \A j \in 2..(Len(t) - 1) : t[j] # "}"
    IN  Matches(Trim(str))

detectPartType(str) ==
    IF Len(str) >= 2 /\ str[1] \in {"(", "["} /\ str[Len(str)] \in {")", "]"}
    THEN "posible_intervalo"
    ELSE IF Len(str) >= 2 /\ str[1] = "{" /\ str[Len(str)] = "}"
    THEN "posible_conjunto_discreto"
    ELSE "formato_desconocido"

\* trimmed.slice(1, -1).split(',').map(p => p.trim())
IntervalParts(interval) ==
    TrimEach(Split(SubSeq(Trim(interval), 2, Len(Trim(interval)) - 1), ","))

validateInterval(interval) ==
    LET Decide(leftBracket, rightBracket, commaCount, parts, leftValue, rightValue) ==
            IF commaCount # 1 THEN
                createErrorResponse("Error de formato",
                    "Un intervalo debe tener exactamente dos valores separados por una coma",
                    NoMetadata)
            ELSE IF leftBracket \notin {"(", "["} \/ rightBracket \notin {")", "]"} THEN
                createErrorResponse("Error de formato",
                    "Un intervalo debe usar parentesis () o corchetes []", NoMetadata)
            ELSE IF parts[1] = <<>> \/ parts[2] = <<>> THEN
                createErrorResponse("Error de formato",
                    "Los valores del intervalo no pueden estar vacios", NoMetadata)
            ELSE IF leftValue.k = "throw" \/ rightValue.k = "throw" THEN
                createErrorResponse("Error de evaluacion", "No se pudo evaluar el intervalo",
                                    [type |-> "evaluation_error", interval |-> interval])
            ELSE IF ~IsTypeNumber(leftValue) \/ ~IsFiniteNumber(leftValue) THEN
                createErrorResponse("Error en el primer valor", "no es un numero valido", NoMetadata)
            ELSE IF ~IsTypeNumber(rightValue) \/ ~IsFiniteNumber(rightValue) THEN
                createErrorResponse("Error en el segundo valor", "no es un numero valido", NoMetadata)
            ELSE IF LessEq(rightValue, leftValue) THEN
                createErrorResponse("Error en el orden",
                    "El primer valor debe ser menor que el segundo", NoMetadata)
            ELSE
                createSuccessResponse("Intervalo valido", "es un intervalo valido",
                                      [type |-> "valid_interval", leftValue |-> leftValue,
                                       rightValue |-> rightValue, leftBracket |-> leftBracket,
                                       rightBracket |-> rightBracket,
                                       length |-> Sub(rightValue, leftValue)])
    IN  Decide(Trim(interval)[1], Trim(interval)[Len(Trim(interval))],
               Cardinality({j \in 1..Len(Trim(interval)) : Trim(interval)[j] = ","}),
               IntervalParts(interval),
               safeEvaluate(IntervalParts(interval)[1], NoScope),
               safeEvaluate(IntervalParts(interval)[2], NoScope))

\* The first element the loop of validateDiscreteSet stops at (0: none).
FirstBadElement(elements) ==
    Least({j \in 1..Len(elements) : ~IsTypeNumber(safeEvaluate(elements[j], NoScope))})

\* content.split(',').map(el => el.trim()).filter(el => el !== '')
DiscreteSetElements(discreteSet) ==
    FilterNonEmpty(TrimEach(Split(Trim(SubSeq(discreteSet, 2, Len(discreteSet) - 1)), ",")))

validateDiscreteSet(discreteSet) ==
    LET Decide(content, elements, j, evaluatedElements, uniqueElements) ==
            IF content = <<>> THEN
                createSuccessResponse("Conjunto vacio valido", "El conjunto vacio es valido",
                                      [type |-> "valid_empty_set", elementCount |-> 0])
            ELSE IF j # 0 /\ evaluatedElements[j].k = "throw" THEN
                createErrorResponse("Error de evaluacion", "No se pudo evaluar el conjunto discreto",
                                    [type |-> "evaluation_error"])
            ELSE IF j # 0 THEN
                createErrorResponse("Elemento invalido", "no es un numero valido",
                                    [type |-> "invalid_element", invalidElement |-> elements[j],
                                     evaluatedValue |-> evaluatedElements[j]])
            ELSE
                \* elements: sorted by (a, b) => a - b; with a NaN among them that comparator
                \* is not an order and the list is left as it is here.
                createSuccessResponse("Conjunto discreto valido", "Conjunto con elemento(s)",
                                      [type |-> "valid_discrete_set",
                                       elementCount |-> Len(uniqueElements),
                                       originalElementCount |-> Len(evaluatedElements),
                                       hasDuplicates |-> Len(uniqueElements) # Len(evaluatedElements),
                                       elements |-> IF \E m \in 1..Len(uniqueElements) :
                                                          uniqueElements[m].k = "nan"
                                                    THEN uniqueElements
                                                    ELSE SortNumeric(uniqueElements)])
    IN  Decide(Trim(SubSeq(discreteSet, 2, Len(discreteSet) - 1)),
               DiscreteSetElements(discreteSet),
               FirstBadElement(DiscreteSetElements(discreteSet)),
               EvaluateAll(DiscreteSetElements(discreteSet)),
               UniqueValues(EvaluateAll(DiscreteSetElements(discreteSet))))

validateSetPart(part) ==
    IF isInterval(part) THEN validateInterval(part)
    ELSE IF isDiscreteSet(part) THEN validateDiscreteSet(part)
    ELSE createErrorResponse("Parte invalida", "no es ni intervalo ni conjunto discreto valido",
                             [type |-> "invalid_part", part |-> part,
                              detectedType |-> detectPartType(part)])

\* validationResults.filter(r => !r.ok), by the positions of the parts.
InvalidParts(unionParts) ==
    {m \in 1..Len(unionParts) : NotOk(validateSetPart(Trim(unionParts[m])))}

SetValidate(input, c) ==
    LET Decide(emptyCheck, normalized, unionParts, invalidParts) ==
            IF emptyCheck # <<>> THEN emptyCheck[1]
            ELSE IF invalidParts = {} THEN
                createSuccessResponse("Conjunto valido", "es un conjunto valido",
                                      [type |-> "valid_set", parts |-> Len(unionParts),
                                       originalInput |-> input, processedInput |-> normalized,
                                       unionParts |-> unionParts])
            ELSE
                createErrorResponse("Conjunto invalido", "El conjunto contiene parte(s) invalida(s)",
                                    [type |-> "invalid_set", totalParts |-> Len(unionParts),
                                     validParts |-> Len(unionParts) - Cardinality(invalidParts)])
    IN  Decide(validateEmpty(input), normalizeInput(input, c),
               parseUnionParts(normalizeInput(input, c)),
               InvalidParts(parseUnionParts(normalizeInput(input, c))))


\* content.split(',').map(el => parseFloat(el.trim())).sort()
ParsedElementsSorted(content) ==
    SortDefault([m \in 1..Len(Split(content, ",")) |-> parseFloat(Trim(Split(content, ",")[m]))])

compareDiscreteSets(set1, set2, c) ==
    LET Decide(content1, content2, elements1, elements2) ==
            IF Trim(content1) = <<>> /\ Trim(content2) = <<>> THEN TRUE
            ELSE /\ Len(elements1) = Len(elements2)
                 /\ \A m \in 1..Len(elements1) :
                       IsWithinTolerance(AbsDifference(elements1[m], elements2[m]), c.tolerance)
    IN  Decide(SubSeq(set1, 2, Len(set1) - 1), SubSeq(set2, 2, Len(set2) - 1),
               ParsedElementsSorted(SubSeq(set1, 2, Len(set1) - 1)),
               ParsedElementsSorted(SubSeq(set2, 2, Len(set2) - 1)))

\* parseFloat(content[k]?.trim() ?? '')
EndpointValue(content, k) == parseFloat(Trim(content[k]))

\* Both endpoints of the two intervals, as parseFloat reads them, are within the tolerance.
EndpointsWithin(content1, content2, tolerance) ==
    \A k \in {1, 2} :
        IsWithinTolerance(AbsDifference(EndpointValue(content1, k), EndpointValue(content2, k)),
                          tolerance)

compareIntervals(interval1, interval2, c) ==
    LET Decide(content1, content2, endpointsWithin) ==
            IF interval1[1] # interval2[1]
               \/ interval1[Len(interval1)] # interval2[Len(interval2)] THEN FALSE
            ELSE IF Len(content1) < 2 \/ Len(content2) < 2 THEN FALSE
            ELSE endpointsWithin
    IN  Decide(Split(SubSeq(interval1, 2, Len(interval1) - 1), ","),
               Split(SubSeq(interval2, 2, Len(interval2) - 1), ","),
               EndpointsWithin(Split(SubSeq(interval1, 2, Len(interval1) - 1), ","),
                               Split(SubSeq(interval2, 2, Len(interval2) - 1), ","),
                               c.tolerance))

\* The comparison of two trimmed parts that are not one string.
ComparePartsByType(norm1, norm2, c) ==
    IF isDiscreteSet(norm1) /\ isDiscreteSet(norm2) THEN compareDiscreteSets(norm1, norm2, c)
    ELSE IF isInterval(norm1) /\ isInterval(norm2) THEN compareIntervals(norm1, norm2, c)
    ELSE FALSE

arePartsEquivalent(part1, part2, c) ==
    IF Trim(part1) = Trim(part2) THEN TRUE
    ELSE ComparePartsByType(Trim(part1), Trim(part2), c)

\* userRemaining.findIndex(userPart => arePartsEquivalent(correctPart, userPart)); 0: none.
FindMatchIndex(correctPart, userRemaining, c) ==
    Least({m \in 1..Len(userRemaining) : arePartsEquivalent(correctPart, userRemaining[m], c)})

RemoveAt(seq, m) == Take(seq, m - 1) \o Drop(seq, m)

\* The loop runs over the correct parts from the last to the first; each takes the
\* first user part still unmatched that is equivalent to it.
\* userRemaining after the splice that removes the matched part, if any.
SpliceMatched(userRemaining, matchIndex) ==
    IF matchIndex # 0 THEN RemoveAt(userRemaining, matchIndex) ELSE userRemaining

RECURSIVE findPartMatches(_, _, _)
findPartMatches(correctParts, userParts, c) ==
    LET Step(correctPart, matchIndex, rest) ==
            IF matchIndex # 0
            THEN [rest EXCEPT !.perfectMatches = @ + 1]
            ELSE [rest EXCEPT !.unmatchedCorrect = @ \o <<correctPart>>]
    IN  IF correctParts = <<>>
        THEN [perfectMatches |-> 0, unmatchedCorrect |-> <<>>, unmatchedUser |-> userParts]
        ELSE Step(correctParts[Len(correctParts)],
                  FindMatchIndex(correctParts[Len(correctParts)], userParts, c),
                  findPartMatches(Take(correctParts, Len(correctParts) - 1),
                      SpliceMatched(userParts,
                          FindMatchIndex(correctParts[Len(correctParts)], userParts, c)), c))

compareSetStructure(correctAnswer, userInput, c) ==
    LET Decide(correctParts, userParts, matches) ==
            IF Len(correctParts) # Len(userParts) THEN
                createErrorResponse("Numero de partes incorrecto",
                                    "Tu conjunto tiene otro numero de partes",
                                    [type |-> "part_count_mismatch",
                                     expectedParts |-> Len(correctParts),
                                     actualParts |-> Len(userParts)])
            ELSE IF matches.perfectMatches = Len(correctParts) THEN
                createSuccessResponse("Perfecto", "Tu conjunto coincide exactamente con la solucion",
                                      [type |-> "perfect_match", parts |-> Len(correctParts),
                                       matches |-> matches])
            ELSE
                createErrorResponse("Partes no coinciden", "partes coinciden correctamente",
                                    [type |-> "partial_match", expectedParts |-> Len(correctParts),
                                     matchedParts |-> matches.perfectMatches,
                                     unmatchedParts |-> matches.unmatchedCorrect,
                                     extraParts |-> matches.unmatchedUser])
    IN  Decide(parseUnionParts(normalizeInput(correctAnswer, c)),
               parseUnionParts(normalizeInput(userInput, c)),
               findPartMatches(parseUnionParts(normalizeInput(correctAnswer, c)),
                               parseUnionParts(normalizeInput(userInput, c)), c))

\* Unlike the other selectors, the user's validation is looked at before the correct one's.
SetCompare(correctAnswer, userInput, c) ==
    LET Decide(emptyCheck, validation, structure) ==
            IF emptyCheck # <<>> THEN emptyCheck[1]
            ELSE IF NotOk(validation[userInput]) THEN validation[userInput]
            ELSE IF NotOk(validation[correctAnswer]) THEN
                createErrorResponse("Error del sistema",
                                    "El conjunto de respuesta correcta es invalido", NoMetadata)
            ELSE structure
    IN  Decide(validateEmpty(userInput), [answer \in {correctAnswer, userInput} |-> SetValidate(answer, c)],
               compareSetStructure(correctAnswer, userInput, c))


(***************************************************************************)
(* FormulaSelector                                                         *)
(***************************************************************************)
\* this.normalizeInput(input).replace(/x/g, 'X')
NormalizeInX(input, c) == ReplaceAll(normalizeInput(input, c), <<"x">>, <<"X">>)

FormulaValidationPoints == <<Num(1, 10), Num(1, 2), Num(1, 1), Num(2, 1), Num(5, 1)>>

generateTestPoints ==
    <<Num(-5, 1), Num(-2, 1), Num(-1, 1), Num(-1, 2), Num(-1, 10),
      Num(0, 1),
      Num(1, 10), Num(1, 2), Num(1, 1), Num(2, 1), Num(5, 1),
      Num(10, 1), Num(20, 1)>>

\* The first point of a list at which the expression throws or is not a finite
\* number (0: none).
FirstBadPoint(expression, points) ==
    Least({i \in 1..Len(points) : NotFiniteNumber(safeEvaluate(expression, [X |-> points[i]]))})

FormulaValidate(input, c) ==
    LET Decide(emptyCheck, normalized, bad, value) ==
            IF emptyCheck # <<>> THEN emptyCheck[1]
            ELSE IF bad > 0 /\ value.k = "throw" THEN
                createErrorResponse("Error de evaluacion", "No se pudo evaluar la formula",
                                    [type |-> "evaluation_error",
                                     testPoint |-> FormulaValidationPoints[bad]])
            ELSE IF bad > 0 THEN
                createErrorResponse("Formula invalida", "La formula no produce un numero valido",
                                    [type |-> "invalid_formula_output",
                                     testPoint |-> FormulaValidationPoints[bad],
                                     evaluatedValue |-> value])
            ELSE
                createSuccessResponse("Formula valida", "es una formula valida en x",
                                      [type |-> "valid_formula", originalInput |-> input,
                                       processedInput |-> normalized])
    IN  Decide(validateEmpty(input), NormalizeInX(input, c),
               FirstBadPoint(NormalizeInX(input, c), FormulaValidationPoints),
               safeEvaluate(NormalizeInX(input, c),
                   [X |-> FormulaValidationPoints[
                              FirstBadPoint(NormalizeInX(input, c), FormulaValidationPoints)]]))

\* Neither value is a thrown error and the two differ by at most the tolerance.
ValuesMatch(correctValue, userValue, tolerance) ==
    /\ correctValue.k # "throw" /\ userValue.k # "throw"
    /\ IsWithinTolerance(AbsDifference(correctValue, userValue), tolerance)

\* The test points at which both formulas evaluate without throwing and differ by
\* at most the tolerance.
MatchingPoints(correctNorm, userNorm, points, tolerance) ==
    {i \in 1..Len(points) :
        ValuesMatch(safeEvaluate(correctNorm, [X |-> points[i]]),
                    safeEvaluate(userNorm, [X |-> points[i]]), tolerance)}

\* A rule that asks for every test point.
RateComplete(totalMatches, totalTests, required) == totalMatches = totalTests

\* (totalMatches / testPoints.length) * 100 >= required
RateReached(totalMatches, totalTests, required) == totalMatches * 100 >= required * totalTests

FormulaRequiredSuccessRate == 90

FormulaCompare(correctAnswer, userInput, c) ==
    LET Decide(emptyCheck, validation, testPoints, totalMatches) ==
            IF emptyCheck # <<>> THEN emptyCheck[1]
            ELSE IF NotOk(validation[correctAnswer]) THEN
                createErrorResponse("Error del sistema", "La formula de respuesta correcta es invalida", NoMetadata)
            ELSE IF NotOk(validation[userInput]) THEN validation[userInput]
            ELSE IF RateReached(totalMatches, Len(testPoints), FormulaRequiredSuccessRate) THEN
                createSuccessResponse("Excelente", "Tu formula coincide con la solucion",
                                      [type |-> "formula_match", totalMatches |-> totalMatches,
                                       totalTests |-> Len(testPoints), tolerance |-> c.tolerance])
            ELSE
                createErrorResponse("Formula incorrecta", "Tu formula no coincide en los puntos evaluados",
                                    [type |-> "formula_mismatch", totalMatches |-> totalMatches,
                                     totalTests |-> Len(testPoints), tolerance |-> c.tolerance,
                                     requiredSuccessRate |-> FormulaRequiredSuccessRate])
    IN  Decide(validateEmpty(userInput), [answer \in {correctAnswer, userInput} |-> FormulaValidate(answer, c)],
               generateTestPoints,
               Cardinality(MatchingPoints(NormalizeInX(correctAnswer, c), NormalizeInX(userInput, c),
                                          generateTestPoints, c.tolerance)))


(***************************************************************************)
(* EquationSelector                                                        *)
(***************************************************************************)
EquationValidationPoints == <<Num(0, 1), Num(1, 1), Num(-1, 1), Num(2, 1)>>

EquationTestPoints ==
    <<Num(-5, 1), Num(-2, 1), Num(-1, 1), Num(-1, 2), Num(0, 1),
      Num(1, 2), Num(1, 1), Num(2, 1), Num(5, 1)>>

EquationRequiredSuccessRate == 85

\* validateExpression(expression).isValid
validateExpression(expression) == FirstBadPoint(expression, EquationValidationPoints) = 0

\* `(${left}) - (${right})`
DiffExpression(left, right) == <<"(">> \o left \o <<")", " ", "-", " ", "(">> \o right \o <<")">>

\* The difference expression of a normalized equation that holds one equals sign.
EquationDiff(normalized) ==
    DiffExpression(TrimEach(Split(normalized, "="))[1], TrimEach(Split(normalized, "="))[2])

EquationValidate(input, c) ==
    LET Decide(emptyCheck, normalized, parts, leftSide, rightSide, leftValid, rightValid) ==
            IF emptyCheck # <<>> THEN emptyCheck[1]
            ELSE IF IndexOf(normalized, "=") = 0 THEN
                createErrorResponse("Formato invalido",
                                    "Una ecuacion debe contener el simbolo de igualdad",
                                    [type |-> "missing_equals"])
            ELSE IF Len(parts) # 2 THEN
                createErrorResponse("Formato invalido",
                                    "Una ecuacion debe tener exactamente un simbolo de igualdad",
                                    [type |-> "multiple_equals", partsFound |-> Len(parts)])
            ELSE IF leftSide = <<>> \/ rightSide = <<>> THEN
                createErrorResponse("Ecuacion incompleta", "Ambos lados deben contener expresiones",
                                    [type |-> "incomplete_equation", leftSide |-> leftSide,
                                     rightSide |-> rightSide])
            ELSE IF ~leftValid THEN
                createErrorResponse("Lado izquierdo invalido", "Error en el lado izquierdo",
                                    [type |-> "invalid_left_side", expression |-> leftSide])
            ELSE IF ~rightValid THEN
                createErrorResponse("Lado derecho invalido", "Error en el lado derecho",
                                    [type |-> "invalid_right_side", expression |-> rightSide])
            ELSE
                createSuccessResponse("Ecuacion valida", "es una ecuacion valida",
                                      [type |-> "valid_equation", originalInput |-> input,
                                       processedInput |-> normalized, leftSide |-> leftSide,
                                       rightSide |-> rightSide])
    IN  Decide(validateEmpty(input), NormalizeInX(input, c), Split(NormalizeInX(input, c), "="),
               Trim(Split(NormalizeInX(input, c), "=")[1]),
               Trim(Split(NormalizeInX(input, c), "=")[2]),
               validateExpression(Trim(Split(NormalizeInX(input, c), "=")[1])),
               validateExpression(Trim(Split(NormalizeInX(input, c), "=")[2])))

EquationCompare(correctAnswer, userInput, c) ==
    LET Decide(emptyCheck, validation, testPoints, totalMatches) ==
            IF emptyCheck # <<>> THEN emptyCheck[1]
            ELSE IF NotOk(validation[correctAnswer]) THEN
                createErrorResponse("Error del sistema", "La ecuacion de respuesta correcta es invalida", NoMetadata)
            ELSE IF NotOk(validation[userInput]) THEN validation[userInput]
            ELSE IF RateReached(totalMatches, Len(testPoints), EquationRequiredSuccessRate) THEN
                createSuccessResponse("Excelente", "Tu ecuacion es equivalente a la solucion",
                                      [type |-> "equation_match", totalMatches |-> totalMatches,
                                       totalTests |-> Len(testPoints), tolerance |-> c.tolerance])
            ELSE
                createErrorResponse("Ecuacion incorrecta", "Tu ecuacion no coincide en los puntos evaluados",
                                    [type |-> "equation_mismatch", totalMatches |-> totalMatches,
                                     totalTests |-> Len(testPoints), tolerance |-> c.tolerance,
                                     requiredSuccessRate |-> EquationRequiredSuccessRate])
    IN  Decide(validateEmpty(userInput), [answer \in {correctAnswer, userInput} |-> EquationValidate(answer, c)],
               EquationTestPoints,
               Cardinality(MatchingPoints(EquationDiff(NormalizeInX(correctAnswer, c)), EquationDiff(NormalizeInX(userInput, c)),
                                          EquationTestPoints, c.tolerance)))

(***************************************************************************)
(* AntiderivativeSelector                                                  *)
(***************************************************************************)
XC(x, cst) == [X |-> x, C |-> cst]

AntiderivativeTestValues ==
    <<XC(Num(1, 1), Num(0, 1)), XC(Num(1, 1), Num(1, 1)), XC(Num(1, 1), Num(5, 1)),
      XC(Num(2, 1), Num(0, 1)), XC(Num(2, 1), Num(1, 1)), XC(Num(-1, 1), Num(2, 1))>>

ConstantTestPoints ==
    <<XC(Num(1, 1), Num(1, 1)), XC(Num(1, 1), Num(2, 1)),
      XC(Num(1, 1), Num(5, 1)), XC(Num(1, 1), Num(10, 1))>>

ConstantTestCombinations ==
    <<XC(Num(0, 1), Num(1, 1)), XC(Num(1, 1), Num(1, 1)), XC(Num(2, 1), Num(1, 1)),
      XC(Num(0, 1), Num(5, 1)), XC(Num(1, 1), Num(5, 1)), XC(Num(2, 1), Num(5, 1))>>

DerivativeTestPoints ==
    <<Num(-2, 1), Num(-1, 1), Num(-1, 2), Num(1, 2), Num(1, 1), Num(2, 1), Num(3, 1), Num(5, 1)>>

AntiderivativeRequiredMatchRate == 90

\* validateAntiderivativeExpression(expression).isValid
validateAntiderivativeExpression(expression) ==
    \A i \in 1..Len(AntiderivativeTestValues) :
        ~NotFiniteNumber(safeEvaluate(expression, AntiderivativeTestValues[i]))

\* The derivative with respect to C takes one value, other than zero, at every scope
\* of the list: Math.abs(val - first) < tolerance for each, Math.abs(first) > tolerance.
ConstantNonZeroDerivative(expression, scopes, tolerance) ==
    LET Values(derivativeValues) ==
            /\ \A i \in 1..Len(scopes) : derivativeValues[i].k # "throw"
            /\ \A i \in 1..Len(scopes) :
                  Less(AbsDifference(derivativeValues[i], derivativeValues[1]), tolerance)
            /\ Less(tolerance, AbsDifference(derivativeValues[1], Num(0, 1)))
    IN  Values([i \in 1..Len(scopes) |-> derivativeAt(expression, "C", scopes[i])])

\* checkForConstantOfIntegration(expression).hasConstant
checkForConstantOfIntegration(expression, c) ==
    /\ IndexOf(expression, "C") > 0
    /\ ConstantNonZeroDerivative(expression, ConstantTestPoints, c.tolerance)

\* checkDerivativeRespectToC(expression).isValidAntiderivative
checkDerivativeRespectToC(expression, c) ==
    ConstantNonZeroDerivative(expression, ConstantTestCombinations, c.tolerance)

AntiderivativeValidate(input, c) ==
    LET Decide(emptyCheck, normalized, isValid, hasConstant, isValidAntiderivative) ==
            IF emptyCheck # <<>> THEN emptyCheck[1]
            ELSE IF ~isValid THEN
                createErrorResponse("Expresion invalida",
                                    "La expresion no es valida como antiderivada",
                                    [type |-> "invalid_antiderivative_expression"])
            ELSE IF ~hasConstant THEN
                createErrorResponse("Falta constante de integracion",
                    "Una antiderivada general debe incluir la constante de integracion C",
                    [type |-> "missing_constant"])
            ELSE IF ~isValidAntiderivative THEN
                createErrorResponse("No es una antiderivada valida",
                                    "La derivada respecto a C no es constante",
                                    [type |-> "invalid_antiderivative"])
            ELSE
                createSuccessResponse("Antiderivada valida", "es una antiderivada general valida",
                                      [type |-> "valid_antiderivative", originalInput |-> input,
                                       processedInput |-> normalized, hasConstant |-> TRUE])
    IN  Decide(validateEmpty(input), NormalizeInX(input, c),
               validateAntiderivativeExpression(NormalizeInX(input, c)),
               checkForConstantOfIntegration(NormalizeInX(input, c), c),
               checkDerivativeRespectToC(NormalizeInX(input, c), c))

\* compareDerivatives: the test points at which the derivatives with respect to X,
\* taken at C = 1, evaluate and differ by at most the tolerance.
DerivativeMatches(antiderivative1, antiderivative2, tolerance) ==
    {i \in 1..Len(DerivativeTestPoints) :
        ValuesMatch(derivativeAt(antiderivative1, "X", XC(DerivativeTestPoints[i], Num(1, 1))),
                    derivativeAt(antiderivative2, "X", XC(DerivativeTestPoints[i], Num(1, 1))),
                    tolerance)}

AntiderivativeCompare(correctAnswer, userInput, c) ==
    LET Decide(emptyCheck, validation, matches) ==
            IF emptyCheck # <<>> THEN emptyCheck[1]
            ELSE IF NotOk(validation[correctAnswer]) THEN
                createErrorResponse("Error del sistema",
                                    "La antiderivada de respuesta correcta es invalida", NoMetadata)
            ELSE IF NotOk(validation[userInput]) THEN validation[userInput]
            ELSE IF RateReached(matches, Len(DerivativeTestPoints),
                                AntiderivativeRequiredMatchRate) THEN
                createSuccessResponse("Excelente", "Tu antiderivada es correcta",
                                      [type |-> "antiderivative_match", matches |-> matches,
                                       tolerance |-> c.tolerance])
            ELSE
                createErrorResponse("Antiderivada incorrecta", "Las derivadas no coinciden",
                                    [type |-> "antiderivative_mismatch", matches |-> matches,
                                     tolerance |-> c.tolerance])
    IN  Decide(validateEmpty(userInput),
               [answer \in {correctAnswer, userInput} |-> AntiderivativeValidate(answer, c)],
               Cardinality(DerivativeMatches(NormalizeInX(correctAnswer, c),
                                             NormalizeInX(userInput, c), c.tolerance)))

(***************************************************************************)
(* SelectorFactory: the registry of shapes and the dispatch to a selector  *)
(***************************************************************************)
Validate(type, input, c) ==
    CASE type = "numero" -> NumberValidate(input, c)
      [] type = "vector" -> VectorValidate(input, c)
      [] type = "punto"  -> PointValidate(input, c)
      [] type = "conjunto" -> SetValidate(input, c)
      [] type = "formula" -> FormulaValidate(input, c)
      [] type = "ecuacion" -> EquationValidate(input, c)
      [] type = "antiderivada" -> AntiderivativeValidate(input, c)

Compare(type, correctAnswer, userInput, c) ==
    CASE type = "numero" -> NumberCompare(correctAnswer, userInput, c)
      [] type = "vector" -> VectorCompare(correctAnswer, userInput, c)
      [] type = "punto"  -> PointCompare(correctAnswer, userInput, c)
      [] type = "conjunto" -> SetCompare(correctAnswer, userInput, c)
      [] type = "formula" -> FormulaCompare(correctAnswer, userInput, c)
      [] type = "ecuacion" -> EquationCompare(correctAnswer, userInput, c)
      [] type = "antiderivada" -> AntiderivativeCompare(correctAnswer, userInput, c)

SupportedTypes ==
    {"numero", "conjunto", "vector", "punto", "formula", "ecuacion", "antiderivada"}

\* new SelectorClass(config): the config given is spread over the defaults.
NoOverrides == [x \in {} |-> 0]
SelectorConfig(overrides) == overrides @@ DefaultConfig

\* SelectorFactory.validateResponse: createSelector throws on a type the registry
\* does not hold, and the catch turns that into a factory_error result.
\* The result returned by a catch block of the factory.
FactoryCaught(errorType, type) ==
    [ok |-> OkFalse, title |-> "Error del sistema", msg |-> "Error creando selector",
     metadata |-> [type |-> errorType, selectorType |-> type]]

\* try { return await ... } catch (error) { return ... }
Rethrow(r, caught) == r
CatchAs(r, caught) == IF r.ok = OkThrown THEN caught ELSE r

\* createSelector throws for a type that is not registered; the throw and any throw
\* of compare are caught.
validateResponse(type, correctAnswer, userInput, overrides) ==
    IF type \notin SupportedTypes
    THEN FactoryCaught("factory_error", type)
    ELSE CatchAs(Compare(type, correctAnswer, userInput, SelectorConfig(overrides)),
                 FactoryCaught("factory_error", type))

validateFormat(type, input, overrides) ==
    IF type \notin SupportedTypes
    THEN FactoryCaught("validation_error", type)
    ELSE CatchAs(Validate(type, input, SelectorConfig(overrides)),
                 FactoryCaught("validation_error", type))

(***************************************************************************)
(* ValidationService                                                       *)
(***************************************************************************)
\* validateSingle: the result of the factory with the validation type added to its
\* metadata (the processing time and the timestamp are left out).  It resolves for
\* every request: an error inside is turned into a validation_error result.
\* A request whose userAnswer is left out makes request.userAnswer.substring throw
\* inside the try; the catch block returns its own result.
validateSingle(request) ==
    LET WithType(r) == [r EXCEPT !.metadata = [validationType |-> request.type] @@ r.metadata]
    IN  IF "userAnswer" \notin DOMAIN request
        THEN [ok |-> OkFalse, title |-> "Error de validacion",
              msg |-> "Error interno al validar la respuesta",
              metadata |-> [type |-> "validation_error"]]
        ELSE WithType(validateResponse(request.type, request.correctAnswer,
                                       request.userAnswer, request.config))

concurrencyLimit == 5

\* request.validations.slice(i, i + concurrencyLimit): the positions i+1 .. WindowEnd
WholeRest(i, length) == length
WindowEnd(i, length) == IF i + concurrencyLimit < length THEN i + concurrencyLimit ELSE length

\* const globalIndex = i + batchIndex
IndexInWindow(i, batchIndex) == batchIndex
GlobalIndex(i, batchIndex) == i + batchIndex

\* { ...result, index: globalIndex }
WithIndex(r, index) == [index |-> index] @@ r

\* results.filter(r => r.ok !== false).length
RECURSIVE CountNotWrong(_)
CountNotWrong(rs) ==
    IF rs = <<>> THEN 0
    ELSE (IF rs[1].ok # OkFalse THEN 1 ELSE 0) + CountNotWrong(Tail(rs))

\* results.filter(r => r.ok === true).length
RECURSIVE CountCorrect(_)
CountCorrect(rs) ==
    IF rs = <<>> THEN 0
    ELSE (IF rs[1].ok = OkTrue THEN 1 ELSE 0) + CountCorrect(Tail(rs))

BatchSummary(rs) ==
    [totalScore |-> CountCorrect(rs), maxScore |-> Len(rs),
     allCorrect |-> CountCorrect(rs) = Len(rs)]

(***************************************************************************)
(* Inputs of the checked runs                                              *)
(***************************************************************************)
NumberInputs == {
    <<>>,   \* ''
    <<" "," ">>,   \* '  '
    <<"1","0">>,   \* '10'
    <<"1","0",".","0","1">>,   \* '10.01'
    <<"1","0",".","0","2">>,   \* '10.02'
    <<"9">>,   \* '9'
    <<"1","1">>,   \* '11'
    <<"4","2">>,   \* '42'
    <<"4","2",".","0">>,   \* '42.0'
    <<"1","/","2">>,   \* '1/2'
    <<"0",".","5">>,   \* '0.5'
    <<"p","i">>,   \* 'pi'
    <<gPi>>,   \* '<pi>'
    <<gInf>>,   \* '<inf>'
    <<"1","/","0">>,   \* '1/0'
    <<"0","/","0">>,   \* '0/0'
    <<"i">>,   \* 'i'
    <<"I">>,   \* 'I'
    <<"a","b","c">>,   \* 'abc'
    <<"2","^","3">>,   \* '2^3'
    <<"8">>,   \* '8'
    <<"-","1">>,   \* '-1'
    <<" ","8"," ">>,   \* ' 8 '
    <<"(","1","+","1",")","*","4">>   \* '(1+1)*4'
}

VectorInputs == {
    <<>>,   \* ''
    <<" ">>,   \* ' '
    <<"[","1",",","2","]">>,   \* '[1,2]'
    <<"[","1",","," ","2","]">>,   \* '[1, 2]'
    <<"[","2",",","1","]">>,   \* '[2,1]'
    <<"[","1",",","2",",","3","]">>,   \* '[1,2,3]'
    <<"[","1",",",",","2","]">>,   \* '[1,,2]'
    <<"[","]">>,   \* '[]'
    <<"[","1","]">>,   \* '[1]'
    <<"[","1",",","3","]">>,   \* '[1,3]'
    <<"[","1",",","2",".","0","1","]">>,   \* '[1,2.01]'
    <<"[","1",",","2">>,   \* '[1,2'
    <<"(","1",",","2",")">>,   \* '(1,2)'
    <<"[","1",",","u","]">>,   \* '[1,u]'
    <<"[","1",",","1","/","0","]">>,   \* '[1,1/0]'
    <<"[","1",",","2",",","4","]">>,   \* '[1,2,4]'
    <<"[","1","/","2",",","2","]">>,   \* '[1/2,2]'
    <<"[","0",".","5",",","2",",","7","]">>   \* '[0.5,2,7]'
}

PointInputs == {
    <<>>,   \* ''
    <<" ">>,   \* ' '
    <<"(","1",",","2",")">>,   \* '(1,2)'
    <<"(","1",","," ","2",")">>,   \* '(1, 2)'
    <<"(","2",",","1",")">>,   \* '(2,1)'
    <<"(","1",",","2",",","3",")">>,   \* '(1,2,3)'
    <<"(","1",",",",","2",")">>,   \* '(1,,2)'
    <<"(",")">>,   \* '()'
    <<"(","1",")">>,   \* '(1)'
    <<"(","1",",","3",")">>,   \* '(1,3)'
    <<"(","1",",","2",".","0","1",")">>,   \* '(1,2.01)'
    <<"(","1",",","2">>,   \* '(1,2'
    <<"[","1",",","2","]">>,   \* '[1,2]'
    <<"(","1",",","u",")">>,   \* '(1,u)'
    <<"(","1",",","1","/","0",")">>,   \* '(1,1/0)'
    <<"(","1",",","2",",","4",")">>,   \* '(1,2,4)'
    <<"(","1","/","2",",","2",")">>,   \* '(1/2,2)'
    <<"(","0",".","5",",","2",",","7",")">>   \* '(0.5,2,7)'
}

FormulaInputs == {
    <<>>,   \* ''
    <<" "," ">>,   \* '  '
    <<"x","^","2">>,   \* 'x^2'
    <<"x","*","x">>,   \* 'x*x'
    <<"X","^","2">>,   \* 'X^2'
    <<"2","*","x">>,   \* '2*x'
    <<"x","+","x">>,   \* 'x+x'
    <<"x","^","2","+","1">>,   \* 'x^2+1'
    <<"x","^","2","+","0",".","0","1">>,   \* 'x^2+0.01'
    <<"1","/","x">>,   \* '1/x'
    <<"1","/","(","x","*","(","x","+","1",")",")">>,   \* '1/(x*(x+1))'
    <<"a","b","c">>,   \* 'abc'
    <<"3">>,   \* '3'
    <<"i">>   \* 'i'
}

EquationInputs == {
    <<>>,   \* ''
    <<" ">>,   \* ' '
    <<"x","=","1">>,   \* 'x=1'
    <<"x","-","1","=","0">>,   \* 'x-1=0'
    <<"x"," ","="," ","1">>,   \* 'x = 1'
    <<"x","=","2">>,   \* 'x=2'
    <<"x">>,   \* 'x'
    <<"x","=","1","=","1">>,   \* 'x=1=1'
    <<"=","1">>,   \* '=1'
    <<"x","=","a","b","c">>,   \* 'x=abc'
    <<"1","/","x","=","1">>,   \* '1/x=1'
    <<"x","^","2","=","1">>   \* 'x^2=1'
}

AntiderivativeInputs == {
    <<>>,   \* ''
    <<" "," ">>,   \* '  '
    <<"x","^","2","/","2"," ","+"," ","C">>,   \* 'x^2/2 + C'
    <<"x","*","x","/","2","+","C">>,   \* 'x*x/2+C'
    <<"x","^","2","/","2">>,   \* 'x^2/2'
    <<"x","^","2","/","2"," ","+"," ","2","*","C">>,   \* 'x^2/2 + 2*C'
    <<"x","^","2","/","2"," ","+"," ","c">>,   \* 'x^2/2 + c'
    <<"x","^","3","/","3"," ","+"," ","C">>,   \* 'x^3/3 + C'
    <<"C","*","x">>,   \* 'C*x'
    <<"C">>,   \* 'C'
    <<"1","/","x"," ","+"," ","C">>,   \* '1/x + C'
    <<"1","/","(","x","-","1",")">>,   \* '1/(x-1)'
    <<"a","b","c">>   \* 'abc'
}

SetInputs == {
    <<>>,   \* ''
    <<" ">>,   \* ' '
    <<"{","1",",","2","}">>,   \* '{1,2}'
    <<"{","2",",","1","}">>,   \* '{2,1}'
    <<"(","0",",","1",")">>,   \* '(0,1)'
    <<"{","1",",","2","}"," ","U"," ","(","0",",","1",")">>,   \* '{1,2} U (0,1)'
    <<"(","0",",","1",")"," ","U"," ","{","2",",","1","}">>,   \* '(0,1) U {2,1}'
    <<"{","1",",","2","}"," ",gCup," ","(","0",",","1",")">>,   \* '{1,2} <cup> (0,1)'
    <<"(","0",",","1",")"," ",gCup," ","{","2",",","1","}">>,   \* '(0,1) <cup> {2,1}'
    <<"(","0",",","5","]">>,   \* '(0,5]'
    <<"a","b","c">>,   \* 'abc'
    <<gCup>>   \* '<cup>'
}

Shapes == {"numero", "conjunto", "vector", "punto", "formula", "ecuacion", "antiderivada"}

InputsOf(type) ==
    CASE type = "numero" -> NumberInputs
      [] type = "vector" -> VectorInputs
      [] type = "punto"  -> PointInputs
      [] type = "conjunto" -> SetInputs
      [] type = "formula" -> FormulaInputs
      [] type = "ecuacion" -> EquationInputs
      [] type = "antiderivada" -> AntiderivativeInputs

Tolerances == {Num(0, 1), DefaultTolerance, Num(1, 2), Num(1, 1)}

SelConfigs ==
    {[tolerance |-> t, caseSensitive |-> cs, stripSpaces |-> TRUE] :
        t \in Tolerances, cs \in BOOLEAN}
    \cup {[tolerance |-> DefaultTolerance, caseSensitive |-> cs, stripSpaces |-> FALSE] :
             cs \in BOOLEAN}

NoResult == [ok |-> "none", title |-> "", msg |-> "", metadata |-> [type |-> "none"]]
NoSummary == [totalScore |-> -1, maxScore |-> -1, allCorrect |-> FALSE]

(***************************************************************************)
(* Normalizer runs: normalizeInput applied once, then to its own output    *)
(***************************************************************************)
NormAlphabet == {" ", "U", "u", "1", "a", gCup, gInf, gPi}
MaxNormLen == 3

NormLongInputs == {
    <<"a","r","c","s",gElem>>,
    <<"a","r","c","s","i","n","(","1",")">>,
    <<"(","0",","," ",gInf,")">>,
    <<"{","1","}"," ",gCup," ","(","0",",","1",")">>,
    <<"{","1","}"," ","U"," ","(","0",",","1",")">>,
    <<"2",gTimes,gPi>>
}

NormInputs ==
    UNION {[1..n -> NormAlphabet] : n \in 0..MaxNormLen} \cup NormLongInputs

NormConfigs ==
    {[tolerance |-> DefaultTolerance, caseSensitive |-> cs, stripSpaces |-> ss] :
        cs \in BOOLEAN, ss \in BOOLEAN}

NormIdle ==
    /\ nInput = <<>> /\ nCfg = DefaultConfig /\ nOnce = <<>> /\ nTwice = <<>> /\ nPc = "idle"

SelIdle ==
    /\ shape = "none" /\ op = "none" /\ correct = <<>> /\ user = <<>>
    /\ cfg = DefaultConfig /\ result = NoResult /\ pc = "idle"
    /\ cParts = <<>> /\ uParts = <<>> /\ sep = <<>>

BatchIdle ==
    /\ validations = <<>> /\ loopIndex = 0 /\ status = <<>> /\ settled = <<>>
    /\ settleOrder = <<>> /\ results = <<>> /\ summary = NoSummary /\ bPc = "idle"
    /\ requestKeys = {}

\* A promise: pending, fulfilled with a value, or rejected with a reason.
Pending == [state |-> "pending"]
Fulfilled(value) == [state |-> "fulfilled", value |-> value]
Rejected(reason) == [state |-> "rejected", reason |-> reason]

LoopIdle ==
    /\ lEntry = "none" /\ lArg = <<>> /\ lTimeout = 0 /\ lDuration = 0
    /\ clock = 0 /\ timers = {} /\ lSingle = NoResult /\ lOutcome = Pending /\ lPc = "idle"

RegistryIdle ==
    /\ selectors = <<>> /\ registrations = <<>> /\ created = <<>>

\* No call of the Canvas client and no submission is followed.
ExtIdle ==
    /\ cStack = <<>> /\ cSent = 0 /\ cOnlyRetryable = TRUE /\ cOutcome = "none"
    /\ calls = <<>> /\ saved = <<>>

InitNorm ==
    /\ nInput \in NormInputs
    /\ nCfg \in NormConfigs
    /\ nOnce = <<>> /\ nTwice = <<>>
    /\ nPc = "start"
    /\ SelIdle /\ BatchIdle /\ LoopIdle /\ RegistryIdle /\ ExtIdle

NormalizeOnce ==
    /\ nPc = "start"
    /\ nOnce' = normalizeInput(nInput, nCfg)
    /\ nPc' = "once"
    /\ UNCHANGED <<nInput, nCfg, nTwice, selVars, batchVars, svcVars>>

NormalizeAgain ==
    /\ nPc = "once"
    /\ nTwice' = normalizeInput(nOnce, nCfg)
    /\ nPc' = "twice"
    /\ UNCHANGED <<nInput, nCfg, nOnce, selVars, batchVars, svcVars>>

NextNorm == NormalizeOnce \/ NormalizeAgain

SpecNorm == InitNorm /\ [][NextNorm]_vars

(***************************************************************************)
(* One call of a selector: validate(user) or compare(correct, user)        *)
(***************************************************************************)
Init ==
    /\ shape \in Shapes
    /\ op \in {"validate", "compare"}
    /\ user \in InputsOf(shape)
    /\ correct \in (IF op = "compare" THEN InputsOf(shape) ELSE {<<>>})
    /\ cfg \in SelConfigs
    /\ result = NoResult
    /\ pc = "ready"
    /\ cParts = <<>> /\ uParts = <<>> /\ sep = <<>>
    /\ NormIdle /\ BatchIdle /\ LoopIdle /\ RegistryIdle /\ ExtIdle

CallValidate ==
    /\ pc = "ready" /\ op = "validate"
    /\ result' = validateFormat(shape, user, cfg)
    /\ pc' = "done"
    /\ UNCHANGED <<callVars, normVars, batchVars, svcVars>>

CallCompare ==
    /\ pc = "ready" /\ op = "compare"
    /\ result' = validateResponse(shape, correct, user, cfg)
    /\ pc' = "done"
    /\ UNCHANGED <<callVars, normVars, batchVars, svcVars>>

Next == CallValidate \/ CallCompare

Spec == Init /\ [][Next]_vars

(***************************************************************************)
(* Calls of the factory that meet a fault: a shape that is not registered, *)
(* a user answer that is not a string                                      *)
(***************************************************************************)
RequestedTypes == Shapes \cup {"matriz"}

FactoryInputs(type) == IF type \in Shapes THEN InputsOf(type) ELSE NumberInputs

InitFactory ==
    /\ shape \in RequestedTypes
    /\ op \in {"validate", "compare"}
    /\ user \in FactoryInputs(shape) \cup {NotAString}
    /\ correct \in (IF op = "compare" THEN FactoryInputs(shape) ELSE {<<>>})
    /\ cfg = DefaultConfig
    /\ result = NoResult
    /\ pc = "ready"
    /\ cParts = <<>> /\ uParts = <<>> /\ sep = <<>>
    /\ NormIdle /\ BatchIdle /\ LoopIdle /\ RegistryIdle /\ ExtIdle

SpecFactory == InitFactory /\ [][Next]_vars

(***************************************************************************)
(* Set answers written from union parts: validate(user) or                 *)
(* compare(correct, user) of the set selector                              *)
(***************************************************************************)
SetParts == {
    <<"{","0","}">>,   \* '{0}'
    <<"{","1","}">>,   \* '{1}'
    <<"{","2","}">>,   \* '{2}'
    <<"{","1",",","2","}">>,   \* '{1,2}'
    <<"{","2",",","1","}">>,   \* '{2,1}'
    <<"(","0",",","1",")">>,   \* '(0,1)'
    <<"(","0",",","5",")">>,   \* '(0,5)'
    <<"(","0",",","5","]">>,   \* '(0,5]'
    <<"[","0",",","5","]">>,   \* '[0,5]'
    <<"(","0",",","1","/","2",")">>,   \* '(0,1/2)'
    <<"(","0",",","0",".","5",")">>,   \* '(0,0.5)'
    <<"{","p","i",",","1","}">>,   \* '{pi,1}'
    <<"{","1",",","p","i","}">>,   \* '{1,pi}'
    <<"{","1",",","1",",","2","}">>,   \* '{1,1,2}'
    <<"{","}">>,   \* '{}'
    <<"(","1",",","0",")">>,   \* '(1,0)'
    <<"{","9",",","1","0","}">>,   \* '{9,10}'
    <<"{","1","0",",","1","1","}">>,   \* '{10,11}'
    <<"(","0",",",gInf,")">>,   \* '(0,<inf>)'
    <<"(","-",gInf,",","3","]">>,   \* '(-<inf>,3]'
    <<"a","b","c">>   \* 'abc'
}

PairableSetParts == {
    <<"{","0","}">>,   \* '{0}'
    <<"{","1","}">>,   \* '{1}'
    <<"{","2","}">>,   \* '{2}'
    <<"{","1",",","2","}">>,   \* '{1,2}'
    <<"{","2",",","1","}">>,   \* '{2,1}'
    <<"(","0",",","1",")">>   \* '(0,1)'
}

\* The answers: no part, one part, or two parts joined by the union operator.
SetPartLists ==
    {<<>>} \cup {<<p>> : p \in SetParts}
           \cup {<<p, q>> : p \in PairableSetParts, q \in PairableSetParts}

UnionGlyph == <<" ", gCup, " ">>
UnionLetter == <<" ", "U", " ">>

RECURSIVE Render(_, _)
Render(parts, separator) ==
    IF parts = <<>> THEN <<>>
    ELSE IF Len(parts) = 1 THEN parts[1]
    ELSE parts[1] \o separator \o Render(Tail(parts), separator)

\* The union operator an answer is written with, and the config of the call.
SetRuns ==
    {<<UnionGlyph, DefaultConfig>>,
     <<UnionGlyph, [DefaultConfig EXCEPT !.tolerance = Num(1, 1)]>>,
     <<UnionLetter, DefaultConfig>>,
     <<UnionLetter, [DefaultConfig EXCEPT !.caseSensitive = TRUE]>>}

InitSet ==
    /\ shape = "conjunto"
    /\ op \in {"validate", "compare"}
    /\ uParts \in SetPartLists
    /\ cParts \in (IF op = "compare" THEN SetPartLists ELSE {<<>>})
    /\ \E run \in SetRuns : sep = run[1] /\ cfg = run[2]
    /\ user = Render(uParts, sep)
    /\ correct = Render(cParts, sep)
    /\ result = NoResult
    /\ pc = "ready"
    /\ NormIdle /\ BatchIdle /\ LoopIdle /\ RegistryIdle /\ ExtIdle

SpecSet == InitSet /\ [][Next]_vars

(***************************************************************************)
(* One validateBatch call                                                  *)
(***************************************************************************)
BatchRequests ==
    << [type |-> "numero", correctAnswer |-> <<"1","0">>, userAnswer |-> <<"1","0">>,
        config |-> NoOverrides],
       [type |-> "numero", correctAnswer |-> <<"1","0">>, userAnswer |-> <<"1","1">>,
        config |-> NoOverrides],
       [type |-> "numero", correctAnswer |-> <<"1","0">>, userAnswer |-> <<>>,
        config |-> NoOverrides],
       [type |-> "matriz", correctAnswer |-> <<"1","0">>, userAnswer |-> <<"1","0">>,
        config |-> NoOverrides],
       [type |-> "numero", correctAnswer |-> <<"1","0">>, userAnswer |-> <<"1","1">>,
        config |-> [tolerance |-> Num(1, 1)]] >>

MaxBatch == 7

\* A batch of a given length: the requests of BatchRequests in turn, from a given one.
BatchFrom(length, first) ==
    [k \in 1..length |-> BatchRequests[((first + k - 2) % Len(BatchRequests)) + 1]]

Batches == {BatchFrom(length, first) : length \in 0..MaxBatch, first \in 1..Len(BatchRequests)}

InFlight == {k \in 1..Len(validations) : status[k] = "running"}

\* The fields of the batch request: one without its validations has none to read.
BatchRequestKeys == {{"exerciseId", "validations"}, {"exerciseId"}}

InitBatch ==
    /\ requestKeys \in BatchRequestKeys
    /\ validations \in (IF "validations" \in requestKeys THEN Batches ELSE {<<>>})
    /\ loopIndex = 0
    /\ status = [k \in 1..Len(validations) |-> "pending"]
    /\ settled = [k \in 1..Len(validations) |-> NoResult]
    /\ settleOrder = <<>>
    /\ results = <<>>
    /\ summary = NoSummary
    /\ bPc = "loop"
    /\ NormIdle /\ SelIdle /\ LoopIdle /\ RegistryIdle /\ ExtIdle

\* The loop body up to the await: batch.map starts validateSingle for every request
\* of the slice.
StartWindow ==
    /\ bPc = "loop" /\ "validations" \in requestKeys /\ loopIndex < Len(validations)
    /\ status' = [k \in 1..Len(validations) |->
                    IF k > loopIndex /\ k <= WindowEnd(loopIndex, Len(validations))
                    THEN "running" ELSE status[k]]
    /\ bPc' = "await"
    /\ UNCHANGED <<validations, loopIndex, settled, settleOrder, results, summary,
                   requestKeys, normVars, selVars, svcVars>>

\* One validateSingle of the window settles; the callback adds the index.
Settle(k) ==
    /\ bPc = "await" /\ status[k] = "running"
    /\ settled' = [settled EXCEPT ![k] =
                      WithIndex(validateSingle(validations[k]),
                                GlobalIndex(loopIndex, k - loopIndex - 1))]
    /\ status' = [status EXCEPT ![k] = "settled"]
    /\ settleOrder' = Append(settleOrder, k)
    /\ UNCHANGED <<validations, loopIndex, results, summary, bPc, requestKeys,
                   normVars, selVars, svcVars>>

\* A combinator that resolves with the first promise of the window that settles.
FirstSettled(st) == \E k \in DOMAIN st : st[k] = "settled"

\* await Promise.all(batch.map(...)): no validateSingle of the window is still running.
AllSettled(st) == \A k \in DOMAIN st : st[k] # "running"

\* Promise.all resolves once every promise of the window has: its values are in the
\* order of the slice; they are pushed and the loop index advances.
CollectWindow ==
    /\ bPc = "await"
    /\ AllSettled(status)
    /\ results' = results \o [j \in 1..(Cardinality({k \in 1..Len(validations) :
                                                        k > loopIndex /\ status[k] = "settled"}))
                                |-> settled[loopIndex + j]]
    /\ loopIndex' = loopIndex + concurrencyLimit
    /\ bPc' = "loop"
    /\ UNCHANGED <<validations, status, settled, settleOrder, summary, requestKeys,
                   normVars, selVars, svcVars>>

\* After the loop: the scores, and the return.
Finish ==
    /\ bPc = "loop" /\ "validations" \in requestKeys /\ loopIndex >= Len(validations)
    /\ summary' = BatchSummary(results)
    /\ bPc' = "done"
    /\ UNCHANGED <<validations, loopIndex, status, settled, settleOrder, results,
                   requestKeys, normVars, selVars, svcVars>>

\* request.validations.length throws inside the try when the request has no
\* validations; the catch block logs and throws a new Error: the call rejects.
RejectBatch ==
    /\ bPc = "loop" /\ "validations" \notin requestKeys
    /\ bPc' = "rejected"
    /\ UNCHANGED <<validations, loopIndex, status, settled, settleOrder, results, summary,
                   requestKeys, normVars, selVars, svcVars>>

NextBatch ==
    \/ RejectBatch
    \/ StartWindow
    \/ \E k \in 1..Len(validations) : Settle(k)
    \/ CollectWindow
    \/ Finish

SpecBatch == InitBatch /\ [][NextBatch]_vars

\* What a Settle(k) step does to the bookkeeping of the promises: a validateSingle
\* that is running settles.
Settles(k) ==
    /\ bPc = "await" /\ status[k] = "running"
    /\ status' = [status EXCEPT ![k] = "settled"]
    /\ settleOrder' = Append(settleOrder, k)

\* validateBatch where every job that can run does: the continuations of the loop
\* are run by the event loop, and every validateSingle that was started settles.
SpecBatchLive ==
    /\ InitBatch /\ [][NextBatch]_vars
    /\ WF_vars(StartWindow) /\ WF_vars(CollectWindow) /\ WF_vars(Finish)
    /\ WF_<<status, settleOrder>>(\E k \in 1..Len(validations) : Settles(k))

(***************************************************************************)
(* One call on the event loop: safeEvaluate, validateSingle or             *)
(* validateWithTimeout.  A job runs to completion together with the        *)
(* promise reactions it queues; the callback of a timer is a job of its    *)
(* own, run when its time has come and no other job is running.            *)
(* evaluate is synchronous, and every await of a validator and of the      *)
(* factory waits for a promise that is settled already, so a whole         *)
(* evaluation and a whole validateSingle are one job.                      *)
(***************************************************************************)
MaxTimeout == 2
MaxDuration == 3

\* The time after which the clock is not followed any further.
MaxClock == MaxTimeout + MaxDuration + 1

EvalExpressions == {
    <<"1","0">>,   \* '10'
    <<"1","/","2">>,   \* '1/2'
    <<"2","^","3">>,   \* '2^3'
    <<"1","/","0">>,   \* '1/0'
    <<"a","b","c">>,   \* 'abc'
    <<"(","1","+","1">>   \* '(1+1'
}

\* The requests of a batch, and one whose userAnswer is left out.
LoopRequests ==
    {BatchRequests[k] : k \in 1..Len(BatchRequests)}
    \cup {[type |-> "numero", correctAnswer |-> <<"1","0">>, config |-> NoOverrides]}

InitLoop ==
    /\ lEntry \in {"safeEvaluate", "validateSingle", "validateWithTimeout"}
    /\ lArg \in (IF lEntry = "safeEvaluate" THEN EvalExpressions ELSE LoopRequests)
    /\ lTimeout \in (IF lEntry = "validateSingle" THEN {0} ELSE 0..MaxTimeout)
    /\ lDuration \in 0..MaxDuration
    /\ clock = 0 /\ timers = {} /\ lSingle = NoResult /\ lOutcome = Pending
    /\ lPc = "called"
    /\ RegistryIdle /\ ExtIdle
    /\ NormIdle /\ SelIdle /\ BatchIdle

\* processingTime = Date.now() - startTime, added to the metadata of the result on
\* both paths of validateSingle.
Timed(r, processingTime) ==
    [r EXCEPT !.metadata = [processingTime |-> processingTime] @@ r.metadata]

\* The result validateWithTimeout returns when the race is lost to the timer.
TimeoutResult(timeoutMs) ==
    [ok |-> OkFalse, title |-> "Timeout", msg |-> "La validacion tomo mas de timeoutMs",
     metadata |-> [type |-> "timeout_error", timeoutMs |-> timeoutMs]]

\* resolve(result) or reject(error) of safeEvaluate, by what evaluate did.
SettleEvaluation(value) ==
    IF value.k = "throw" THEN Rejected("evaluation_error") ELSE Fulfilled(value)

\* What the callback of a timer does to the promise of the call, by its owner:
\* safeEvaluate rejects with the timeout error; in validateWithTimeout the rejection
\* of timeoutPromise wins the race and the catch returns the timeout result.  A
\* promise that is settled stays as it is.
TimerCallback(owner, outcome, timeoutMs) ==
    IF outcome # Pending THEN outcome
    ELSE IF owner = "safeEvaluate" THEN Rejected("timeout")
    ELSE Fulfilled(TimeoutResult(timeoutMs))

\* setTimeout(..., timeout): the first statement of safeEvaluate's executor and of
\* validateWithTimeout.
SetTimer ==
    /\ lPc = "called" /\ lEntry \in {"safeEvaluate", "validateWithTimeout"}
    /\ timers' = timers \cup {[owner |-> lEntry, due |-> clock + lTimeout]}
    /\ lPc' = "running"
    /\ UNCHANGED <<lEntry, lArg, lTimeout, lDuration, clock, lSingle, lOutcome,
                   regVars, extVars, normVars, selVars, batchVars>>

\* The rest of safeEvaluate's executor, in the same job: evaluate takes its time,
\* then clearTimeout and resolve or reject.
RunEvaluate ==
    /\ lPc = "running" /\ lEntry = "safeEvaluate"
    /\ clock' = clock + lDuration
    /\ timers' = {t \in timers : t.owner # "safeEvaluate"}
    /\ lOutcome' = SettleEvaluation(evaluate(lArg, NoScope))
    /\ lPc' = "idle"
    /\ UNCHANGED <<lEntry, lArg, lTimeout, lDuration, lSingle,
                   regVars, extVars, normVars, selVars, batchVars>>

\* validateSingle from its call to its return, in the job of the caller; called by
\* validateWithTimeout inside Promise.race, whose timer stays set.
RunValidateSingle ==
    /\ \/ lPc = "called" /\ lEntry = "validateSingle"
       \/ lPc = "running" /\ lEntry = "validateWithTimeout"
    /\ clock' = clock + lDuration
    /\ lSingle' = Timed(validateSingle(lArg), lDuration)
    /\ lOutcome' = Fulfilled(lSingle')
    /\ lPc' = "idle"
    /\ UNCHANGED <<lEntry, lArg, lTimeout, lDuration, timers,
                   regVars, extVars, normVars, selVars, batchVars>>

\* Time passes while no job runs.
Tick ==
    /\ lPc = "idle" /\ clock < MaxClock
    /\ clock' = clock + 1
    /\ UNCHANGED <<lEntry, lArg, lTimeout, lDuration, timers, lSingle, lOutcome, lPc,
                   regVars, extVars, normVars, selVars, batchVars>>

\* The callback of a timer that is due, run when no job is running.
TimerFires ==
    /\ lPc = "idle"
    /\ \E t \in timers :
          /\ clock >= t.due
          /\ timers' = timers \ {t}
          /\ lOutcome' = TimerCallback(t.owner, lOutcome, lTimeout)
    /\ UNCHANGED <<lEntry, lArg, lTimeout, lDuration, clock, lSingle, lPc,
                   regVars, extVars, normVars, selVars, batchVars>>

NextLoop == SetTimer \/ RunEvaluate \/ RunValidateSingle \/ Tick \/ TimerFires

SpecLoop == InitLoop /\ [][NextLoop]_vars

(***************************************************************************)
(* The registry of the factory under registerSelector, createSelector and  *)
(* getSupportedTypes, called in any order                                  *)
(***************************************************************************)
\* private static selectors = new Map([...]): the class registered for each type.
BuiltinSelectors ==
    [t \in SupportedTypes |->
        CASE t = "numero" -> "NumberSelector"
          [] t = "conjunto" -> "SetSelector"
          [] t = "vector" -> "VectorSelector"
          [] t = "punto" -> "PointSelector"
          [] t = "formula" -> "FormulaSelector"
          [] t = "ecuacion" -> "EquationSelector"
          [] t = "antiderivada" -> "AntiderivativeSelector"]

\* A registerSelector that leaves a registered type as it is.
registerIfAbsent(map, type, selectorClass) ==
    IF type \in DOMAIN map THEN map
    ELSE [t \in DOMAIN map \cup {type} |-> IF t = type THEN selectorClass ELSE map[t]]

\* this.selectors.set(type, selectorClass)
registerSelector(map, type, selectorClass) ==
    [t \in DOMAIN map \cup {type} |-> IF t = type THEN selectorClass ELSE map[t]]

\* createSelector: throws when the map has no class for the type, else returns a
\* new instance of the class.
createSelector(map, type) ==
    IF type \notin DOMAIN map THEN [kind |-> "thrown"]
    ELSE [kind |-> "instance", of |-> map[type]]

\* Array.from(this.selectors.keys()), as a set.
getSupportedTypes(map) == DOMAIN map

\* The types and classes of the calls, and the number of registrations followed.
RegistryTypes == {"numero", "conjunto", "matriz", "grafo"}
SelectorClasses == {"MatrixSelector", "StrictNumberSelector"}
MaxRegistrations == 2

InitRegistry ==
    /\ selectors = BuiltinSelectors
    /\ registrations = <<>>
    /\ created = <<>>
    /\ LoopIdle /\ ExtIdle
    /\ NormIdle /\ SelIdle /\ BatchIdle

RegisterSelector ==
    /\ Len(registrations) < MaxRegistrations
    /\ \E type \in RegistryTypes, selectorClass \in SelectorClasses :
          /\ selectors' = registerSelector(selectors, type, selectorClass)
          /\ registrations' = Append(registrations, <<type, selectorClass>>)
    /\ created' = <<>>
    /\ UNCHANGED <<loopVars, extVars, normVars, selVars, batchVars>>

CreateSelector ==
    /\ \E type \in RegistryTypes :
          created' = <<[call |-> "createSelector", type |-> type,
                        outcome |-> createSelector(selectors, type)]>>
    /\ UNCHANGED <<selectors, registrations, loopVars, extVars, normVars, selVars, batchVars>>

GetSupportedTypes ==
    /\ created' = <<[call |-> "getSupportedTypes", types |-> getSupportedTypes(selectors)]>>
    /\ UNCHANGED <<selectors, registrations, loopVars, extVars, normVars, selVars, batchVars>>

NextRegistry == RegisterSelector \/ CreateSelector \/ GetSupportedTypes

SpecRegistry == InitRegistry /\ [][NextRegistry]_vars

(***************************************************************************)
(* One call of the Canvas client.  Every request of the client, the ones   *)
(* retryRequest sends included, passes the response interceptor.  cStack   *)
(* holds who waits for the request in flight and for the ones before it:   *)
(* 0 is the caller of the client, n >= 1 is retryRequest(config, n)        *)
(* awaiting this.client.request(config).  The backoff delays are not       *)
(* followed.                                                               *)
(***************************************************************************)
\* canvasConfig.retryAttempts
retryAttempts == 3

\* The number of requests after which the call is not followed any further.
MaxSends == 9

\* What a request can meet: a response with its status, or no response and an error
\* code (status 0).
CanvasResponses ==
    {[status |-> 200, code |-> "none"], [status |-> 404, code |-> "none"],
     [status |-> 500, code |-> "none"], [status |-> 503, code |-> "none"],
     [status |-> 0, code |-> "ECONNRESET"], [status |-> 0, code |-> "ETIMEDOUT"]}

\* The default validateStatus of the client: a status from 200 to 299 resolves.
IsErrorResponse(r) == r.status < 200 \/ r.status >= 300

\* error.response?.status >= 500 || error.code === 'ECONNRESET'
shouldRetry(error) == error.status >= 500 \/ error.code = "ECONNRESET"

\* The request of the frame on top is rejected.  The caller receives the error.
\* retryRequest(config, n) catches it and returns retryRequest(config, n + 1), which
\* throws when n + 1 > retryAttempts, rejecting the request of the frame below, and
\* else sends the request again.
RECURSIVE RejectTop(_, _)
RejectTop(stack, error) ==
    IF stack[Len(stack)] = 0
    THEN [stack |-> <<>>, outcome |-> error]
    ELSE IF stack[Len(stack)] + 1 > retryAttempts
    THEN RejectTop(SubSeq(stack, 1, Len(stack) - 1), "max_retry_attempts")
    ELSE [stack |-> [stack EXCEPT ![Len(stack)] = @ + 1], outcome |-> "pending"]

\* retryRequest(error.config) called by the interceptor: attempt is the default 1.
RetryFromInterceptor(stack) ==
    IF 1 > retryAttempts THEN RejectTop(stack, "max_retry_attempts")
    ELSE [stack |-> Append(stack, 1), outcome |-> "pending"]

InitCanvas ==
    /\ cStack = <<0>> /\ cSent = 1 /\ cOnlyRetryable = TRUE /\ cOutcome = "pending"
    /\ calls = <<>> /\ saved = <<>>
    /\ NormIdle /\ SelIdle /\ BatchIdle /\ LoopIdle /\ RegistryIdle

\* The request in flight succeeds: every promise of the chain resolves.
RespondSuccess ==
    /\ cOutcome = "pending"
    /\ \E r \in CanvasResponses : ~IsErrorResponse(r)
    /\ cStack' = <<>> /\ cOutcome' = "resolved" /\ cOnlyRetryable' = FALSE
    /\ UNCHANGED <<cSent, attemptVars, loopVars, regVars, normVars, selVars, batchVars>>

\* The request in flight fails and the interceptor retries it.
RespondRetryable ==
    /\ cOutcome = "pending" /\ cSent < MaxSends
    /\ \E r \in CanvasResponses : IsErrorResponse(r) /\ shouldRetry(r)
    /\ cStack' = RetryFromInterceptor(cStack).stack
    /\ cOutcome' = RetryFromInterceptor(cStack).outcome
    /\ cSent' = IF cOutcome' = "pending" THEN cSent + 1 ELSE cSent
    /\ UNCHANGED <<cOnlyRetryable, attemptVars, loopVars, regVars, normVars, selVars, batchVars>>

\* The request in flight fails and the interceptor rejects it.
RespondFatal ==
    /\ cOutcome = "pending" /\ cSent < MaxSends
    /\ \E r \in CanvasResponses : IsErrorResponse(r) /\ ~shouldRetry(r)
    /\ cStack' = RejectTop(cStack, "response_error").stack
    /\ cOutcome' = RejectTop(cStack, "response_error").outcome
    /\ cSent' = IF cOutcome' = "pending" THEN cSent + 1 ELSE cSent
    /\ cOnlyRetryable' = FALSE
    /\ UNCHANGED <<attemptVars, loopVars, regVars, normVars, selVars, batchVars>>

NextCanvas == RespondSuccess \/ RespondRetryable \/ RespondFatal

SpecCanvas == InitCanvas /\ [][NextCanvas]_vars

(***************************************************************************)
(* submitResponses calls of students on one server.  A call gives way to   *)
(* the others at each await: while it validates, between the query of      *)
(* getNextAttemptNumber and the save of the grouped response, and while    *)
(* the grade is sent.  saved is the collection of grouped responses, in    *)
(* the order of insertion; its index on (canvasUserId, canvasAssignmentId, *)
(* attemptNumber) is not unique, so every insertion succeeds.              *)
(***************************************************************************)
MaxSubmissions == 3

CanvasUserIds == {"u1", "u2"}
CanvasAssignmentIds == {"a1"}

\* The stored responses of a student for an assignment, by position.
ResponsesOf(docs, userId, assignmentId) ==
    {k \in 1..Len(docs) : docs[k].canvasUserId = userId
                           /\ docs[k].canvasAssignmentId = assignmentId}

\* findOne({canvasUserId, canvasAssignmentId}).sort({attemptNumber: -1}), then
\* lastAttempt ? lastAttempt.attemptNumber + 1 : 1
getNextAttemptNumber(docs, userId, assignmentId) ==
    IF ResponsesOf(docs, userId, assignmentId) = {} THEN 1
    ELSE 1 + (CHOOSE n \in {docs[k].attemptNumber : k \in ResponsesOf(docs, userId, assignmentId)} :
                 \A k \in ResponsesOf(docs, userId, assignmentId) : docs[k].attemptNumber <= n)

InitAttempts ==
    /\ calls = <<>> /\ saved = <<>>
    /\ cStack = <<>> /\ cSent = 0 /\ cOnlyRetryable = TRUE /\ cOutcome = "none"
    /\ NormIdle /\ SelIdle /\ BatchIdle /\ LoopIdle /\ RegistryIdle

\* A student submits: the call finds the exercise set and validates the responses.
SubmitResponses ==
    /\ Len(calls) < MaxSubmissions
    /\ \E userId \in CanvasUserIds, assignmentId \in CanvasAssignmentIds :
          calls' = Append(calls, [canvasUserId |-> userId, canvasAssignmentId |-> assignmentId,
                                  attemptNumber |-> 0, at |-> "validating"])
    /\ UNCHANGED <<saved, canvasVars, loopVars, regVars, normVars, selVars, batchVars>>

\* const attemptNumber = await this.getNextAttemptNumber(...)
DetermineAttempt(i) ==
    /\ calls[i].at = "validating"
    /\ calls' = [calls EXCEPT ![i].attemptNumber =
                                  getNextAttemptNumber(saved, calls[i].canvasUserId,
                                                       calls[i].canvasAssignmentId),
                              ![i].at = "numbered"]
    /\ UNCHANGED <<saved, canvasVars, loopVars, regVars, normVars, selVars, batchVars>>

\* await groupedResponse.save()
SaveResponse(i) ==
    /\ calls[i].at = "numbered"
    /\ saved' = Append(saved, [canvasUserId |-> calls[i].canvasUserId,
                               canvasAssignmentId |-> calls[i].canvasAssignmentId,
                               attemptNumber |-> calls[i].attemptNumber])
    /\ calls' = [calls EXCEPT ![i].at = "saved"]
    /\ UNCHANGED <<canvasVars, loopVars, regVars, normVars, selVars, batchVars>>

\* The grade is sent and the call returns its attemptNumber.
ReturnSubmission(i) ==
    /\ calls[i].at = "saved"
    /\ calls' = [calls EXCEPT ![i].at = "returned"]
    /\ UNCHANGED <<saved, canvasVars, loopVars, regVars, normVars, selVars, batchVars>>

NextAttempts ==
    \/ SubmitResponses
    \/ \E i \in 1..Len(calls) : DetermineAttempt(i)
    \/ \E i \in 1..Len(calls) : SaveResponse(i)
    \/ \E i \in 1..Len(calls) : ReturnSubmission(i)

SpecAttempts == InitAttempts /\ [][NextAttempts]_vars

(***************************************************************************)
(* Properties of one selector call                                         *)
(***************************************************************************)
IsBlank(s) == \A i \in 1..Len(s) : IsWhitespace(s[i])

ValidateDone == pc = "done" /\ op = "validate"
CompareDone  == pc = "done" /\ op = "compare"

\* C1: for each of the seven shapes and every config, validate(s) and
\* compare(correct, s) return ok = null when s is empty or holds only whitespace,
\* whatever the correct answer is.
EmptyInputLaw ==
    (pc = "done" /\ IsBlank(user)) => result.ok = OkNull

EmptyInputLawWitness ==
    /\ CompareDone /\ shape = "antiderivada"
    /\ user = <<" ", " ">> /\ correct = <<"a", "b", "c">>
    /\ result.ok = OkNull /\ result.metadata.type = "empty_input"

\* C3 as stated: for the number selector and any two strings a and b, compare(a, b)
\* and compare(b, a) return the same ok.
ToleranceSymmetryAnyInputs ==
    (CompareDone /\ shape = "numero") => result.ok = NumberCompare(user, correct, cfg).ok

\* C3: for the number selector and any two strings a and b that are not blank,
\* compare(a, b) and compare(b, a) return the same ok.
ToleranceSymmetry ==
    (CompareDone /\ shape = "numero" /\ ~IsBlank(correct) /\ ~IsBlank(user))
        => result.ok = NumberCompare(user, correct, cfg).ok

ToleranceSymmetryWitness ==
    /\ CompareDone /\ shape = "numero"
    /\ correct = <<"1", "0">> /\ user = <<"1", "1">> /\ cfg.tolerance = Num(0, 1)
    /\ result.ok = OkFalse /\ NumberCompare(user, correct, cfg).ok = OkFalse

\* C6: for the vector and the point selector, when the correct answer and a user
\* answer that is not blank both pass validation with different dimensions, compare
\* returns ok = false with metadata.type = "dimension_mismatch".
DimensionGuard ==
    (/\ CompareDone /\ shape \in {"vector", "punto"} /\ ~IsBlank(user)
     /\ Validate(shape, correct, cfg).ok = OkTrue
     /\ Validate(shape, user, cfg).ok = OkTrue
     /\ Validate(shape, correct, cfg).metadata.dimension
            # Validate(shape, user, cfg).metadata.dimension)
        => (result.ok = OkFalse /\ result.metadata.type = "dimension_mismatch")

DimensionGuardWitness ==
    /\ CompareDone /\ shape = "vector"
    /\ correct = <<"[", "1", ",", "2", "]">> /\ user = <<"[", "1", ",", "2", ",", "3", "]">>
    /\ result.ok = OkFalse /\ result.metadata.type = "dimension_mismatch"

\* C7: number compare returns ok = true exactly when both answers evaluate to
\* finite numbers whose absolute difference is at most the tolerance (a difference
\* equal to the tolerance is accepted); for two finite numbers further apart it
\* returns ok = false, metadata.type = "tolerance_exceeded" and the difference.
NumberToleranceRule ==
    (CompareDone /\ shape = "numero") =>
        LET correctValue == evaluate(normalizeInput(correct, cfg), NoScope)
            userValue    == evaluate(normalizeInput(user, cfg), NoScope)
            bothFinite   == IsFiniteNumber(correctValue) /\ IsFiniteNumber(userValue)
            distance     == AbsValue(Sub(correctValue, userValue))
            within       == bothFinite /\ LessEq(distance, cfg.tolerance)
        IN  /\ (result.ok = OkTrue) <=> within
            /\ (bothFinite /\ ~within) =>
                  /\ result.ok = OkFalse
                  /\ result.metadata.type = "tolerance_exceeded"
                  /\ result.metadata.difference = distance

NumberToleranceRuleWitness ==
    /\ CompareDone /\ shape = "numero"
    /\ correct = <<"1", "0">> /\ user = <<"1", "1">> /\ cfg.tolerance = Num(1, 1)
    /\ result.ok = OkTrue /\ result.metadata.difference = cfg.tolerance

(***************************************************************************)
(* Properties of the normalizer                                            *)
(***************************************************************************)
\* C2: normalizeInput is idempotent: for every input and every config without custom
\* formatters, normalizing the normalized input gives the normalized input.
NormalizationIdempotent ==
    nPc = "twice" => nTwice = nOnce

(***************************************************************************)
(* Properties of the set selector                                          *)
(***************************************************************************)
RECURSIVE JoinWith(_, _)
JoinWith(items, c) ==
    IF items = <<>> THEN <<>>
    ELSE IF Len(items) = 1 THEN items[1]
    ELSE items[1] \o <<c>> \o JoinWith(Tail(items), c)

Reorderings(seq) ==
    {[i \in 1..Len(seq) |-> seq[f[i]]] : f \in Permutations(1..Len(seq))}

\* The ways of writing one part: a discrete part with its elements in any order.
ElementOrders(part) ==
    IF Len(part) >= 2 /\ part[1] = "{" /\ part[Len(part)] = "}"
    THEN {<<"{">> \o JoinWith(q, ",") \o <<"}">> :
             q \in Reorderings(Split(SubSeq(part, 2, Len(part) - 1), ","))}
    ELSE {part}

\* The ways of writing an answer: its parts in any order, each part in any of its ways.
Rearrangements(parts) ==
    {q \in [1..Len(parts) -> UNION {ElementOrders(parts[i]) : i \in 1..Len(parts)}] :
        \E f \in Permutations(1..Len(parts)) :
            \A i \in 1..Len(parts) : q[i] \in ElementOrders(parts[f[i]])}

\* The parts of the two answers can be paired one-to-one into equivalent pairs.
CanBePaired(correctAnswer, userInput, c) ==
    LET correctParts == parseUnionParts(normalizeInput(correctAnswer, c))
        userParts    == parseUnionParts(normalizeInput(userInput, c))
    IN  /\ Len(correctParts) = Len(userParts)
        /\ \E f \in Permutations(1..Len(correctParts)) :
              \A i \in 1..Len(correctParts) :
                  arePartsEquivalent(correctParts[i], userParts[f[i]], c)

BothSetsValid ==
    /\ CompareDone /\ shape = "conjunto"
    /\ SetValidate(correct, cfg).ok = OkTrue
    /\ SetValidate(user, cfg).ok = OkTrue

\* C4: for set answers that pass validation, the ok of compare(correct, user) is the
\* same for every order of the union parts of either answer and every order of the
\* elements of a discrete part, and it is true whenever the parts of the two answers
\* can be paired one-to-one into equivalent pairs.
SetOrderIndependence ==
    BothSetsValid =>
        /\ \A q \in Rearrangements(uParts) :
              SetCompare(correct, Render(q, sep), cfg).ok = result.ok
        /\ \A q \in Rearrangements(cParts) :
              SetCompare(Render(q, sep), user, cfg).ok = result.ok
        /\ CanBePaired(correct, user, cfg) => result.ok = OkTrue

\* C5: with the default config, compare("{1,2} U (0,1)", "(0,1) U {2,1}") of the set
\* selector returns ok = true.
AsciiUnionExample ==
    (/\ CompareDone /\ shape = "conjunto" /\ cfg = DefaultConfig
     /\ correct = <<"{","1",",","2","}"," ","U"," ","(","0",",","1",")">>
     /\ user = <<"(","0",",","1",")"," ","U"," ","{","2",",","1","}">>)
        => result.ok = OkTrue

\* The bracket types and the evaluated endpoints of an interval part.
IntervalEndpoints(part) ==
    LET str       == Trim(part)
        endpoints == TrimEach(Split(SubSeq(str, 2, Len(str) - 1), ","))
    IN  [leftBracket  |-> str[1],
         rightBracket |-> str[Len(str)],
         left         |-> evaluate(endpoints[1], NoScope),
         right        |-> evaluate(endpoints[2], NoScope)]

\* C8: two interval parts are judged equal exactly when their left bracket types are
\* equal, their right bracket types are equal, and the evaluated values of both
\* endpoint expressions differ by at most the tolerance.
IntervalEqualityRule ==
    (/\ BothSetsValid /\ Len(cParts) = 1 /\ Len(uParts) = 1
     /\ isInterval(normalizeInput(correct, cfg)) /\ isInterval(normalizeInput(user, cfg)))
        => LET a == IntervalEndpoints(normalizeInput(correct, cfg))
               b == IntervalEndpoints(normalizeInput(user, cfg))
           IN  (result.ok = OkTrue) <=>
                   /\ a.leftBracket = b.leftBracket
                   /\ a.rightBracket = b.rightBracket
                   /\ LessEq(AbsValue(Sub(a.left, b.left)), cfg.tolerance)
                   /\ LessEq(AbsValue(Sub(a.right, b.right)), cfg.tolerance)

(***************************************************************************)
(* Properties of the batch validation                                      *)
(***************************************************************************)
\* C9: validateBatch returns exactly one result per request, in input order: results
\* has the length of validations, and for every k (from 0) results[k].index = k and
\* results[k] is the outcome of validations[k], whatever the order in which the
\* validations complete.
BatchResultsInOrder ==
    bPc = "done" =>
        /\ Len(results) = Len(validations)
        /\ \A k \in 1..Len(validations) :
              /\ results[k].index = k - 1
              /\ results[k] = WithIndex(validateSingle(validations[k]), k - 1)

\* A batch of two windows has returned after its validations completed out of order.
BatchResultsInOrderWitness ==
    /\ bPc = "done" /\ Len(validations) = 7
    /\ settleOrder[1] = 5 /\ settleOrder[2] = 1 /\ settleOrder[6] = 7
    /\ results[7].index = 6 /\ results[7].ok = OkFalse
    /\ results[5].ok = OkTrue

\* C10: during validateBatch at most 5 validateSingle calls are in flight (started
\* and not yet settled) at any time, for a batch of any length.
AtMostFiveInFlight ==
    Cardinality(InFlight) <= 5

\* Five calls are in flight while requests of the batch are still waiting.
AtMostFiveInFlightWitness ==
    /\ Cardinality(InFlight) = 5
    /\ \E k \in 1..Len(validations) : status[k] = "pending"

\* The number of positions of a batch result whose ok is a given value.
OkCount(value) == Cardinality({k \in 1..Len(results) : results[k].ok = value})

\* C11: in the result of validateBatch totalScore is the number of results with
\* ok = true, maxScore is the number of requests, totalScore <= maxScore, and
\* allCorrect holds exactly when the two are equal; results with ok = null or
\* ok = false count for maxScore only, and the empty batch is all correct with 0/0.
BatchScores ==
    bPc = "done" =>
        /\ summary.totalScore = OkCount(OkTrue)
        /\ summary.maxScore = Len(validations)
        /\ summary.maxScore = OkCount(OkTrue) + OkCount(OkFalse) + OkCount(OkNull)
        /\ summary.totalScore <= summary.maxScore
        /\ summary.allCorrect <=> (summary.totalScore = summary.maxScore)
        /\ (Len(validations) = 0) =>
              (summary.allCorrect /\ summary.totalScore = 0 /\ summary.maxScore = 0)

\* A batch with correct, wrong and unanswered items has been scored.
BatchScoresWitness ==
    /\ bPc = "done"
    /\ OkCount(OkTrue) >= 2 /\ OkCount(OkFalse) >= 1 /\ OkCount(OkNull) >= 1
    /\ summary.totalScore = OkCount(OkTrue) /\ summary.maxScore = Len(validations)
    /\ ~summary.allCorrect

(***************************************************************************)
(* Properties of the calls on the event loop                               *)
(***************************************************************************)
\* C12: validateSingle never rejects: for every request it resolves with a result,
\* and the metadata of every result it resolves with carries the shape of the
\* request (validationType) and the elapsed time (processingTime).
ValidateSingleAnnotates ==
    (lEntry = "validateSingle" /\ lPc = "idle") =>
        /\ lOutcome.state = "fulfilled"
        /\ "validationType" \in DOMAIN lOutcome.value.metadata
        /\ lOutcome.value.metadata.validationType = lArg.type
        /\ "processingTime" \in DOMAIN lOutcome.value.metadata
        /\ lOutcome.value.metadata.processingTime = lDuration

\* C13: validateWithTimeout resolves with the result of validateSingle when that
\* settles within timeoutMs, and with ok = false, metadata.type = "timeout_error"
\* when the validation has not finished after timeoutMs.
TimeoutDecidesRace ==
    (lEntry = "validateWithTimeout" /\ lPc = "idle") =>
        /\ lOutcome.state = "fulfilled"
        /\ lOutcome.value = IF lDuration > lTimeout THEN TimeoutResult(lTimeout) ELSE lSingle

\* C14: safeEvaluate is bounded by config.timeout: when the evaluation takes longer
\* than config.timeout the call rejects with the timeout error instead of delivering
\* the late value; otherwise it settles with the value or the error of the
\* evaluation.
EvaluationBounded ==
    (lEntry = "safeEvaluate" /\ lPc = "idle") =>
        lOutcome = IF lDuration > lTimeout THEN Rejected("timeout")
                   ELSE SettleEvaluation(evaluate(lArg, NoScope))

(***************************************************************************)
(* Properties of the order of the checks of compare                        *)
(***************************************************************************)
\* The result compare returns for a correct answer that fails validation.
IsSystemError(r) == r.ok = OkFalse /\ r.title = "Error del sistema"

\* C15: for every shape compare decides in this order: a blank user answer gives
\* ok = null; otherwise a correct answer that fails validation gives the system
\* error, whether or not the user answer is valid; otherwise a user answer that
\* fails validation gives exactly the result of validate(userAnswer); only
\* otherwise the equivalence rule of the shape applies.
CompareCheckOrder ==
    (CompareDone /\ shape \in Shapes) =>
        IF IsBlank(user) THEN result.ok = OkNull
        ELSE IF Validate(shape, correct, cfg).ok # OkTrue THEN IsSystemError(result)
        ELSE IF Validate(shape, user, cfg).ok # OkTrue
             THEN result = Validate(shape, user, cfg)
        ELSE ~IsSystemError(result)

\* The metadata types of the failures that answers of a student produce: those of
\* validate on the answers of the shape.
StudentFailureTypes(type, c) ==
    {Validate(type, u, c).metadata.type :
        u \in {v \in InputsOf(type) : Validate(type, v, c).ok = OkFalse}}

\* C16: for every shape the result compare returns when the correct answer fails
\* validation is marked as a system-side error: its metadata.type is not the
\* generic default and is no type that a failure of a student's answer produces.
SystemErrorMarked ==
    (CompareDone /\ shape \in Shapes /\ IsSystemError(result)) =>
        /\ result.metadata.type # createErrorResponse("", "", NoMetadata).metadata.type
        /\ result.metadata.type \notin StudentFailureTypes(shape, cfg)

(***************************************************************************)
(* Properties of the factory                                               *)
(***************************************************************************)
\* createSelector or the validator throws in this call.
FaultInCall == shape \notin SupportedTypes \/ user = NotAString

\* C17: validateResponse and validateFormat never throw or reject: when createSelector
\* throws for a shape that is not registered, or the validator throws, validateResponse
\* resolves with ok = false, metadata.type = "factory_error" and validateFormat with
\* ok = false, metadata.type = "validation_error".
FactoryNeverThrows ==
    pc = "done" =>
        /\ result.ok \in {OkTrue, OkFalse, OkNull}
        /\ FaultInCall =>
              /\ result.ok = OkFalse
              /\ result.metadata.type =
                     (IF op = "compare" THEN "factory_error" ELSE "validation_error")

\* validateFormat has caught the TypeError of a validator given no string.
FactoryNeverThrowsWitness ==
    /\ pc = "done" /\ op = "validate" /\ shape = "vector" /\ user = NotAString
    /\ result.ok = OkFalse /\ result.metadata.type = "validation_error"
    /\ result.metadata.selectorType = "vector"

\* C18: no exception leaves validateBatch: for every batch request a fault while
\* processing the batch or one of its items is turned into structured results with
\* ok = false and the call resolves; it never rejects.
BatchNeverRejects ==
    /\ bPc # "rejected"
    /\ bPc = "done" => \A k \in 1..Len(results) : results[k].ok \in {OkTrue, OkFalse, OkNull}

(***************************************************************************)
(* Properties of the registry                                              *)
(***************************************************************************)
\* The class a type should have after the registrations made so far: the one of its
\* latest registration, else the built-in one, else none.
RECURSIVE LatestClass(_, _)
LatestClass(type, log) ==
    IF log = <<>>
    THEN (IF type \in SupportedTypes THEN BuiltinSelectors[type] ELSE "none")
    ELSE IF log[Len(log)][1] = type THEN log[Len(log)][2]
    ELSE LatestClass(type, SubSeq(log, 1, Len(log) - 1))

\* C19: over any sequence of operations of the registry: after
\* registerSelector(shape, ctor) createSelector(shape) returns an instance of ctor,
\* for a new shape and for a replaced one, and getSupportedTypes contains shape; the
\* classes of all other shapes are unchanged, the seven built-in shapes stay
\* registered, and createSelector on a shape never registered throws.
RegistryLaw ==
    /\ SupportedTypes \subseteq DOMAIN selectors
    /\ \A type \in RegistryTypes \cup SupportedTypes :
          IF LatestClass(type, registrations) = "none"
          THEN type \notin DOMAIN selectors
          ELSE type \in DOMAIN selectors /\ selectors[type] = LatestClass(type, registrations)
    /\ \A k \in 1..Len(created) :
          IF created[k].call = "createSelector"
          THEN created[k].outcome =
                  (IF LatestClass(created[k].type, registrations) = "none"
                   THEN [kind |-> "thrown"]
                   ELSE [kind |-> "instance",
                         of |-> LatestClass(created[k].type, registrations)])
          ELSE created[k].types =
                  SupportedTypes \cup {registrations[j][1] : j \in 1..Len(registrations)}

\* A built-in shape has been replaced after a new shape was added, and an instance of
\* the replacing class was created.
RegistryLawWitness ==
    /\ registrations = << <<"matriz", "MatrixSelector">>, <<"numero", "StrictNumberSelector">> >>
    /\ created = <<[call |-> "createSelector", type |-> "numero",
                    outcome |-> [kind |-> "instance", of |-> "StrictNumberSelector"]]>>
    /\ selectors["conjunto"] = "SetSelector" /\ selectors["matriz"] = "MatrixSelector"

(***************************************************************************)
(* Properties of the antiderivative selector                               *)
(***************************************************************************)
\* The engine evaluates the input, as written, to a value for every value of x of the
\* list: it neither throws nor returns undefined (the empty expression).
EvaluableInX(input) ==
    \A i \in 1..Len(AntiderivativeTestValues) :
        evaluate(input, [x |-> AntiderivativeTestValues[i].X]).k \notin {"throw", "undef"}

\* C20: validate of the antiderivative selector returns ok = false with
\* metadata.type = "missing_constant" for every input that is an evaluable expression
\* in x and does not contain the integration constant C.
MissingConstantReported ==
    (ValidateDone /\ shape = "antiderivada" /\ EvaluableInX(user) /\ IndexOf(user, "C") = 0) =>
        /\ result.ok = OkFalse
        /\ result.metadata.type = "missing_constant"

\* The input, with x bound to X and C left as written, evaluates to a finite number
\* at the test values and its derivative with respect to C is a constant other than 0.
GeneralAntiderivative(input, c) ==
    /\ validateAntiderivativeExpression(ReplaceAll(input, <<"x">>, <<"X">>))
    /\ ConstantNonZeroDerivative(ReplaceAll(input, <<"x">>, <<"X">>),
                                 ConstantTestCombinations, c.tolerance)

\* C21: with caseSensitive = false validate of the antiderivative selector returns
\* ok = true for every well-formed general antiderivative (an expression in x and C
\* whose derivative with respect to C is a nonzero constant, as "x^2/2 + C").
GeneralAntiderivativeAccepted ==
    (ValidateDone /\ shape = "antiderivada" /\ ~cfg.caseSensitive
        /\ GeneralAntiderivative(user, cfg)) => result.ok = OkTrue

(***************************************************************************)
(* Properties of the set selector: discrete parts                          *)
(***************************************************************************)
\* The elements of a discrete part evaluated numerically, without duplicates, in
\* numeric order.
DiscreteValues(part) ==
    SortNumeric(UniqueValues(EvaluateAll(DiscreteSetElements(part))))

\* As many elements, and the elements at each position within the tolerance.
SameDiscreteValues(values1, values2, tolerance) ==
    /\ Len(values1) = Len(values2)
    /\ \A m \in 1..Len(values1) :
          IsWithinTolerance(AbsDifference(values1[m], values2[m]), tolerance)

\* Both answers are one discrete part that passes validation.
OneDiscretePartEach ==
    /\ BothSetsValid
    /\ Len(cParts) = 1 /\ isDiscreteSet(cParts[1])
    /\ Len(uParts) = 1 /\ isDiscreteSet(uParts[1])

\* C22: two discrete parts are judged equal exactly when, after evaluating their
\* elements numerically, removing duplicates and sorting in numeric order, they have
\* as many elements and the elements at each position differ by at most the tolerance.
DiscretePartsEqualRule ==
    OneDiscretePartEach =>
        ((result.ok = OkTrue) <=>
            SameDiscreteValues(DiscreteValues(cParts[1]), DiscreteValues(uParts[1]), cfg.tolerance))

(***************************************************************************)
(* Properties of the formula selector                                      *)
(***************************************************************************)
\* The sample points at which the two formulas agree: neither evaluation throws and
\* the difference of the values is a number not above the tolerance.
AgreeingPoints(correctAnswer, userInput, c) ==
    {i \in 1..Len(generateTestPoints) :
        /\ evaluate(NormalizeInX(correctAnswer, c), [X |-> generateTestPoints[i]]).k # "throw"
        /\ evaluate(NormalizeInX(userInput, c), [X |-> generateTestPoints[i]]).k # "throw"
        /\ AbsDifference(evaluate(NormalizeInX(correctAnswer, c), [X |-> generateTestPoints[i]]),
                         evaluate(NormalizeInX(userInput, c), [X |-> generateTestPoints[i]])).k
              \in {"num", "inf"}
        /\ LessEq(AbsDifference(evaluate(NormalizeInX(correctAnswer, c), [X |-> generateTestPoints[i]]),
                                evaluate(NormalizeInX(userInput, c), [X |-> generateTestPoints[i]])),
                  c.tolerance)}

BothFormulasValid ==
    /\ CompareDone /\ shape = "formula"
    /\ FormulaValidate(correct, cfg).ok = OkTrue
    /\ FormulaValidate(user, cfg).ok = OkTrue

\* C23: compare of two valid formulas returns ok = true exactly when at least 12 of
\* the 13 sample points agree within the tolerance (at least 90%); a point where an
\* evaluation throws or the difference is not a number disagrees.
FormulaThreshold ==
    BothFormulasValid =>
        /\ Len(generateTestPoints) = 13
        /\ (result.ok = OkTrue) <=> (Cardinality(AgreeingPoints(correct, user, cfg)) >= 12)
        /\ (result.ok = OkTrue) <=>
              (Cardinality(AgreeingPoints(correct, user, cfg)) * 100 >= 90 * Len(generateTestPoints))

\* Two valid formulas that agree at 11 of the 13 points are judged different.
FormulaBelowThreshold ==
    /\ BothFormulasValid
    /\ Cardinality(AgreeingPoints(correct, user, cfg)) = 11
    /\ result.ok = OkFalse

\* Two valid formulas that agree at exactly 12 of the 13 points, the difference at the
\* remaining one not being a number, are judged equal.
FormulaThresholdWitness ==
    /\ BothFormulasValid
    /\ Cardinality(AgreeingPoints(correct, user, cfg)) = 12
    /\ \E i \in 1..Len(generateTestPoints) :
          AbsDifference(evaluate(NormalizeInX(correct, cfg), [X |-> generateTestPoints[i]]),
                        evaluate(NormalizeInX(user, cfg), [X |-> generateTestPoints[i]])).k = "nan"
    /\ result.ok = OkTrue

(***************************************************************************)
(* Properties shared by the selectors                                      *)
(***************************************************************************)
\* C24: compare is reflexive on valid answers: for every shape and every input a for
\* which validate(a) returns ok = true, compare(a, a) returns ok = true.
CompareReflexive ==
    (CompareDone /\ shape \in Shapes /\ correct = user
        /\ Validate(shape, user, cfg).ok = OkTrue) => result.ok = OkTrue

(***************************************************************************)
(* Properties of the set selector: validation                              *)
(***************************************************************************)
\* C25: validate of the set selector returns ok = true with type "valid_set" only if
\* the input has at least one union part and every part is a valid interval or a
\* valid discrete set; an input of union operators alone is not a valid set.
ValidSetHasParts ==
    (ValidateDone /\ shape = "conjunto" /\ result.ok = OkTrue) =>
        /\ result.metadata.type = "valid_set"
        /\ Len(parseUnionParts(normalizeInput(user, cfg))) >= 1
        /\ \A m \in 1..Len(parseUnionParts(normalizeInput(user, cfg))) :
              validateSetPart(Trim(parseUnionParts(normalizeInput(user, cfg))[m])).ok = OkTrue

\* The answer is one interval with an endpoint written with the infinity glyph.
InfiniteInterval ==
    /\ shape = "conjunto" /\ Len(uParts) = 1 /\ isInterval(uParts[1])
    /\ \E j \in 1..Len(uParts[1]) : uParts[1][j] = gInf

\* C26: an interval with an infinite endpoint written with the infinity glyph, as
\* "(0, <inf>)" or "(-<inf>, 3]", passes set validation.
InfiniteIntervalValid ==
    (ValidateDone /\ InfiniteInterval) =>
        /\ result.ok = OkTrue
        /\ result.metadata.type = "valid_set"

(***************************************************************************)
(* Properties of the timers                                                *)
(***************************************************************************)
\* C27: validateWithTimeout leaves no timer behind: once it has resolved with the
\* result of validateSingle, no timer created by the call is still pending.
NoTimerLeftBehind ==
    (lEntry = "validateWithTimeout" /\ lOutcome = Fulfilled(lSingle)) =>
        \A t \in timers : t.owner # "validateWithTimeout"

(***************************************************************************)
(* Properties of the windows of validateBatch                              *)
(***************************************************************************)
\* C28: validateBatch works in consecutive windows of 5 with a barrier between them:
\* the validation of item i (counted from 0) is not started before every item with
\* an index below 5 * floor(i / 5) has settled; and when the validation of every item
\* settles, validateBatch of a request with validations eventually returns.
WindowBarrier ==
    /\ [](\A k \in 1..Len(validations) :
            status[k] # "pending" =>
                \A j \in 1..(5 * ((k - 1) \div 5)) : status[j] = "settled")
    /\ ("validations" \in requestKeys) ~> (bPc = "done")

\* The second window has started only after the slowest item of the first one, the
\* first of the batch, settled last of its window.
WindowBarrierWitness ==
    /\ Len(validations) = 7 /\ bPc = "await"
    /\ status[6] = "running" /\ status[7] = "running"
    /\ Len(settleOrder) = 5 /\ settleOrder[5] = 1

(***************************************************************************)
(* Properties of the Canvas client                                         *)
(***************************************************************************)
\* C29: a request that keeps failing with a retryable error is sent again at most
\* retryAttempts (3) times in total, the retry counter never being reset: the attempt
\* number of the retry in flight is the number of times the request was sent again.
RetryBounded ==
    cOnlyRetryable =>
        /\ cSent - 1 <= retryAttempts
        /\ cStack # <<>> => cStack[Len(cStack)] = cSent - 1

(***************************************************************************)
(* Properties of the submissions                                           *)
(***************************************************************************)
\* C30: for any interleaving of submitResponses calls the saved grouped responses of
\* a student for an assignment carry pairwise distinct attempt numbers 1, 2, 3, ...
\* without gaps.
AttemptNumbersUnique ==
    \A userId \in CanvasUserIds, assignmentId \in CanvasAssignmentIds :
        /\ \A j, k \in ResponsesOf(saved, userId, assignmentId) :
              j # k => saved[j].attemptNumber # saved[k].attemptNumber
        /\ {saved[k].attemptNumber : k \in ResponsesOf(saved, userId, assignmentId)}
              = 1..Cardinality(ResponsesOf(saved, userId, assignmentId))

====
